---- MODULE Spec2Model ----
(***************************************************************************)
(* A model of the wren-analyzer semantic pipeline: analyze() runs the      *)
(* parser, then the Resolver (driving a Scope), then the TypeChecker, all  *)
(* appending to one diagnostic list.  The two visitors are recursive in    *)
(* the source; here each visit handler is one action and the recursion is  *)
(* an explicit stack (work) of nodes still to be visited, children pushed  *)
(* in source order and the handler's trailing calls (scope.end(),          *)
(* env.pop(), restoring a saved field) pushed behind them.                 *)
(* The Parser and the Lexer are modelled beside it, each with a            *)
(* specification of its own: the Parser reading the tokens a Lexer hands   *)
(* it, the Lexer reading the bytes of a source.                            *)
(***************************************************************************)
EXTENDS Integers, Sequences, FiniteSets, TLC

VARIABLES
  lexer,             \* the Lexer: its position in the source and its interpolation stack
  parser,            \* the Parser: current, previous, lookahead, diagnostics, and its lexer
  pc,                \* which stage of analyze() runs: parse, resolve, check, done
  source,            \* the input: the Module its parse yields and the tokens the parser rejects
  sourceFile,        \* the SourceFile the reporter is given: str, bytes and the lines table
  module,            \* Module.statements as returned by parseModule
  parserDiagnostics, \* Parser.diagnostics
  parseOnlyResult,   \* parseOnly(source).diagnostics, once it has been called
  diagnostics,       \* the list analyze() shares between the stages
  scopes,            \* Scope.scopes
  forwardReferences, \* Scope.forwardReferences
  hasBareImport,     \* Resolver.hasBareImport
  env,               \* TypeChecker.env: declaredScopes and inferredScopes
  currentReturnType, \* TypeChecker.currentReturnType
  currentClassName,  \* TypeChecker.currentClassName
  classRegistry,     \* TypeChecker.classRegistry
  work,              \* the visitor's call stack: what is still to be visited
  last               \* the handler that ran last, what it ran on and the state it found

vars == <<lexer, parser, pc, source, sourceFile, module, parserDiagnostics, parseOnlyResult,
          diagnostics, scopes, forwardReferences, hasBareImport, env, currentReturnType,
          currentClassName, classRegistry, work, last>>

-----------------------------------------------------------------------------
(* Bounds of the model *)

MaxStmts == 2        \* top-level statements of a module
MaxParseErrors == 1  \* tokens the parser rejects
MaxRecorded == 1     \* diagnostics and forward references a Scope holds before its client stops (SpecScope)
MaxScopeDepth == 2   \* scopes a client pushes on top of the module scope (SpecScope)
LineWidth == 100     \* offsets reserved for one top-level statement

-----------------------------------------------------------------------------
(* Tokens, and null *)

\* null, for a nullable node or token
Nil == [kind |-> "Nil"]

\* null, for a nullable array (arguments, parameters, variables, statements)
NullList == [present |-> FALSE, list |-> <<>>]
ListOf(l) == [present |-> TRUE, list |-> l]

\* The byte length of each text the model's programs are written with
TextLength(t) ==
  CASE t \in {"x", "y", "f", "s", "a", "1", "2", "=", "+", "[", "]", "{", "}", "(", ")",
               ".", ",", ":", "?", "\n"} -> 1
    [] t \in {"42", "Fn", ")\"", "->", "in", "if"} -> 2
    [] t \in {"Foo", "Bar", "Baz", "Qux", "Num", "bar", "baz", "new", "foo", "abs", "qux", "run", "var", "for", "\"m\""} -> 3
    [] t \in {"this", "true", "null", "List", "Bool", "Null", "type", "call", "each"} -> 4
    [] t \in {"count", "print", "class"} -> 5
    [] t \in {"Helper", "System", "String", "return", "static", "\"hi %("} -> 6
    [] t \in {"\"hello\""} -> 7
    [] t \in {"contains", "toString", "nonsense"} -> 8
    [] t \in {"construct"} -> 9
    [] t \in {"attributes"} -> 10

\* Token { text, start, length }
Tok(text, start) == [text |-> text, start |-> start, length |-> TextLength(text)]

\* A diagnostic: severity, code, span, and the identifiers its message spells out
Diagnostic(severity, code, start, length, mentions) ==
  [severity |-> severity, code |-> code,
   span |-> [start |-> start, length |-> length], mentions |-> mentions]

-----------------------------------------------------------------------------
(* chars.ts: the first byte of a name.  A Name token starts with a letter  *)
(* (the scanner makes a Field of a leading underscore), so the names of    *)
(* the model are split into those with a lowercase and those with an       *)
(* uppercase first byte.                                                   *)

LowerNames == {"x", "y", "f", "s", "bar", "baz", "foo", "new", "abs", "qux", "run", "call", "each",
               "count",
               "print", "type", "contains", "toString", "nonsense", "attributes"}
UpperNames == {"Foo", "Bar", "Baz", "Qux", "Helper", "System", "String", "Num", "List",
               "Bool", "Null", "Fn"}

\* isLowerAlpha(name.text.charCodeAt(0))
isLowerAlpha(text) == text \in LowerNames

\* /^[A-Z]/.test(text)
startsUpper(text) == text \in UpperNames

-----------------------------------------------------------------------------
(* scope.ts: class Scope.  A scope is a Map (class = FALSE) or the null    *)
(* that marks a class body (class = TRUE); an entry of a Map is the        *)
(* declaring Token, or true for a built-in.  The operators take and return *)
(* the fields a call can touch: X = [scopes, forwardReferences,            *)
(* diagnostics].                                                           *)

BuiltIn == [kind |-> "true"]

BuiltInNames ==
  {"Bool", "Class", "Fiber", "Fn", "List", "Map", "MapKeySequence", "MapSequence",
   "MapValueSequence", "Null", "Num", "Object", "Range", "Sequence", "String",
   "StringByteSequence", "StringCodePointSequence", "System", "WhereSequence"}

ClassSentinel == [class |-> TRUE, map |-> {}]
EmptyScope == [class |-> FALSE, map |-> {}]

\* new Scope(diagnostics): the module scope, preseeded
ModuleScope == [class |-> FALSE, map |-> {[name |-> n, entry |-> BuiltIn] : n \in BuiltInNames}]

ScopeHas(scope, text) == \E e \in scope.map : e.name = text
ScopeGet(scope, text) == (CHOOSE e \in scope.map : e.name = text).entry
ScopeSet(scope, text, entry) ==
  [scope EXCEPT !.map = {e \in @ : e.name # text} \cup {[name |-> text, entry |-> entry]}]

duplicateVariable(name) ==
  Diagnostic("error", "duplicate-variable", name.start, name.length, <<name.text>>)

undefinedVariable(name) ==
  Diagnostic("error", "undefined-variable", name.start, name.length, <<name.text>>)

\* Scope.declare(name) rebinding the name when it reports the duplicate
declare_overwrite(X, name) ==
  LET top == Len(X.scopes)
      scope == X.scopes[top]
  IN IF scope.class THEN X
     ELSE IF ScopeHas(scope, name.text)
          THEN [X EXCEPT !.diagnostics = Append(@, duplicateVariable(name)),
                         !.scopes[top] = ScopeSet(scope, name.text, name)]
          ELSE [X EXCEPT !.scopes[top] = ScopeSet(scope, name.text, name)]

\* Scope.declare(name)
declare(X, name) ==
  LET top == Len(X.scopes)
      scope == X.scopes[top]
  IN IF scope.class THEN X
     ELSE IF ScopeHas(scope, name.text)
          THEN [X EXCEPT !.diagnostics = Append(@, duplicateVariable(name))]
          ELSE [X EXCEPT !.scopes[top] = ScopeSet(scope, name.text, name)]

\* The loop of Scope.resolve, from scope i outward: what stopped it
RECURSIVE resolveWalk(_, _, _)
resolveWalk(scs, i, text) ==
  IF i = 0 THEN "bottom"
  ELSE IF scs[i].class THEN "class"
  ELSE IF ScopeHas(scs[i], text) THEN "found"
  ELSE resolveWalk(scs, i - 1, text)

\* Scope.resolve(name) without the class-body rule for lowercase names
resolve_noSelfSend(X, name) ==
  LET stop == resolveWalk(X.scopes, Len(X.scopes), name.text)
  IN CASE stop = "found" -> X
       [] stop = "class" /\ ~isLowerAlpha(name.text) ->
            IF ScopeHas(X.scopes[1], name.text) THEN X
            ELSE [X EXCEPT !.forwardReferences = Append(@, name)]
       [] OTHER -> [X EXCEPT !.diagnostics = Append(@, undefinedVariable(name))]

\* Scope.resolve(name); the value it returns is not modelled, no caller reads it
resolve(X, name) ==
  LET stop == resolveWalk(X.scopes, Len(X.scopes), name.text)
  IN CASE stop = "found" -> X
       [] stop = "class" ->
            IF isLowerAlpha(name.text) THEN X
            ELSE IF ScopeHas(X.scopes[1], name.text) THEN X
            ELSE [X EXCEPT !.forwardReferences = Append(@, name)]
       [] OTHER -> [X EXCEPT !.diagnostics = Append(@, undefinedVariable(name))]

\* Scope.begin()
begin(X) == [X EXCEPT !.scopes = Append(@, EmptyScope)]

\* Scope.end()
end(X) == [X EXCEPT !.scopes = SubSeq(@, 1, Len(@) - 1)]

\* Scope.beginClass()
beginClass(X) == [X EXCEPT !.scopes = Append(@, ClassSentinel)]

\* Scope.endClass()
endClass(X) == [X EXCEPT !.scopes = SubSeq(@, 1, Len(@) - 1)]

\* Scope.checkForwardReferences() without its look at the module scope
checkForwardReferences_all(X) ==
  [X EXCEPT !.diagnostics =
     @ \o [i \in 1..Len(X.forwardReferences) |-> undefinedVariable(X.forwardReferences[i])]]

\* Scope.checkForwardReferences() putting its diagnostics in front of the list
checkForwardReferences_inFront(X) ==
  LET missing == SelectSeq(X.forwardReferences, LAMBDA use : ~ScopeHas(X.scopes[1], use.text))
  IN [X EXCEPT !.diagnostics = [i \in 1..Len(missing) |-> undefinedVariable(missing[i])] \o @]

\* Scope.checkForwardReferences()
checkForwardReferences(X) ==
  LET missing == SelectSeq(X.forwardReferences, LAMBDA use : ~ScopeHas(X.scopes[1], use.text))
  IN [X EXCEPT !.diagnostics = @ \o [i \in 1..Len(missing) |-> undefinedVariable(missing[i])]]

\* The Scope fields of a state, as the operators take them
ScopeFields == [scopes |-> scopes, forwardReferences |-> forwardReferences,
                diagnostics |-> diagnostics]

-----------------------------------------------------------------------------
(* ast.ts: the nodes the model's programs are built from, with the field   *)
(* names of the source.                                                    *)

TypeAnnotation(name) == [kind |-> "TypeAnnotation", name |-> name]
Parameter(name, typeAnnotation) == [name |-> name, typeAnnotation |-> typeAnnotation]

NumExpr(value) == [kind |-> "NumExpr", value |-> value]
StringExpr(value) == [kind |-> "StringExpr", value |-> value]
BoolExpr(value) == [kind |-> "BoolExpr", value |-> value]
NullExpr(value) == [kind |-> "NullExpr", value |-> value]
ThisExpr(keyword) == [kind |-> "ThisExpr", keyword |-> keyword]
ListExpr(leftBracket, elements, rightBracket) ==
  [kind |-> "ListExpr", leftBracket |-> leftBracket, elements |-> elements,
   rightBracket |-> rightBracket]
MapExpr(leftBrace, entries, rightBrace) ==
  [kind |-> "MapExpr", leftBrace |-> leftBrace, entries |-> entries, rightBrace |-> rightBrace]
InterpolationExpr(strings, expressions) ==
  [kind |-> "InterpolationExpr", strings |-> strings, expressions |-> expressions]
GroupingExpr(leftParen, expression, rightParen) ==
  [kind |-> "GroupingExpr", leftParen |-> leftParen, expression |-> expression,
   rightParen |-> rightParen]
InfixExpr(left, operator, right) ==
  [kind |-> "InfixExpr", left |-> left, operator |-> operator, right |-> right]
CallExpr(receiver, name, arguments, blockArgument) ==
  [kind |-> "CallExpr", receiver |-> receiver, name |-> name, arguments |-> arguments,
   blockArgument |-> blockArgument]
AssignmentExpr(target, equal, value) ==
  [kind |-> "AssignmentExpr", target |-> target, equal |-> equal, value |-> value]

VarStmt(name, typeAnnotation, initializer) ==
  [kind |-> "VarStmt", name |-> name, typeAnnotation |-> typeAnnotation,
   initializer |-> initializer]
ClassStmt(name, superclass, methods) ==
  [kind |-> "ClassStmt", foreignKeyword |-> Nil, name |-> name, superclass |-> superclass,
   methods |-> methods]
ImportStmt(path, variables) == [kind |-> "ImportStmt", path |-> path, variables |-> variables]
ForStmt(variable, typeAnnotation, iterator, body) ==
  [kind |-> "ForStmt", variable |-> variable, typeAnnotation |-> typeAnnotation,
   iterator |-> iterator, body |-> body]
ReturnStmt(keyword, value) == [kind |-> "ReturnStmt", keyword |-> keyword, value |-> value]
BlockStmt(statements) == [kind |-> "BlockStmt", statements |-> statements]

\* Parser.method builds a Method without an isSetter field, and hands its
\* parameters to finishBody, so the Body carries them too
Method(staticKeyword, constructKeyword, name, parameters, returnType, body) ==
  [kind |-> "Method", foreignKeyword |-> Nil, staticKeyword |-> staticKeyword,
   constructKeyword |-> constructKeyword, name |-> name, parameters |-> parameters,
   returnType |-> returnType, body |-> body]
Body(parameters, expression, statements) ==
  [kind |-> "Body", parameters |-> parameters, expression |-> expression,
   statements |-> statements]

-----------------------------------------------------------------------------
(* The visitor's call stack.  An item is a node still to be visited        *)
(* (visitStmt/visitExpr dispatch on its kind), or what a handler still has *)
(* to do once the visits it started have returned.                         *)

Item(k, n, v) == [k |-> k, n |-> n, v |-> v]
Visit(n) == Item("visit", n, "")
VisitAll(nodes) == [i \in 1..Len(nodes) |-> Visit(nodes[i])]
VisitIf(n) == IF n = Nil THEN <<>> ELSE <<Visit(n)>>
Then(k) == Item(k, Nil, "")
ThenRestore(k, v) == Item(k, Nil, v)

\* RecursiveVisitor: the children a default handler visits, in order
DefaultChildren(node) ==
  CASE node.kind = "ListExpr" -> node.elements
    [] node.kind = "MapExpr" ->
         [i \in 1..(2 * Len(node.entries)) |->
            IF i % 2 = 1 THEN node.entries[(i + 1) \div 2].key
                         ELSE node.entries[i \div 2].value]
    [] node.kind = "InterpolationExpr" -> node.expressions
    [] node.kind = "GroupingExpr" -> <<node.expression>>
    [] node.kind = "InfixExpr" -> <<node.left, node.right>>
    [] node.kind = "AssignmentExpr" -> <<node.target, node.value>>
    [] node.kind = "ReturnStmt" -> IF node.value = Nil THEN <<>> ELSE <<node.value>>
    [] node.kind = "ForStmt" -> <<node.iterator, node.body>>
    [] node.kind = "BlockStmt" -> node.statements
    [] node.kind = "VarStmt" -> IF node.initializer = Nil THEN <<>> ELSE <<node.initializer>>
    [] node.kind = "ClassStmt" -> node.methods
    [] node.kind = "Method" -> IF node.body = Nil THEN <<>> ELSE <<node.body>>
    [] node.kind = "Body" ->
         (IF node.expression = Nil THEN <<>> ELSE <<node.expression>>)
           \o (IF node.statements.present THEN node.statements.list ELSE <<>>)
    [] node.kind = "CallExpr" ->
         (IF node.receiver = Nil THEN <<>> ELSE <<node.receiver>>)
           \o (IF node.arguments.present THEN node.arguments.list ELSE <<>>)
           \o (IF node.blockArgument = Nil THEN <<>> ELSE <<node.blockArgument>>)
    [] OTHER -> <<>>

-----------------------------------------------------------------------------
(* The parser, as analyze() sees it: parseModule returns a Module and has  *)
(* pushed one diagnostic per call of Parser.error.  The input of the model *)
(* is that outcome: source.module is the Module, source.errors the tokens  *)
(* Parser.error was called at.                                             *)

\* Parser.error(message): the diagnostic it pushes for the token it is at
parseError(token) == Diagnostic("error", "parse-error", token.start, token.length, <<>>)

Visited(op, node, pre) == [op |-> op, arg |-> node, pre |-> pre]

\* Parser.error, called while parseModule runs
ParserError ==
  /\ pc = "parse"
  /\ Len(parserDiagnostics) < Len(source.errors)
  /\ parserDiagnostics' =
       Append(parserDiagnostics, parseError(source.errors[Len(parserDiagnostics) + 1]))
  /\ last' = Visited("Parser.error", source.errors[Len(parserDiagnostics) + 1], Nil)
  /\ UNCHANGED <<lexer, parser, pc, source, sourceFile, module, parseOnlyResult, diagnostics, scopes,
                 forwardReferences, hasBareImport, env, currentReturnType,
                 currentClassName, classRegistry, work>>

\* analyze(): parseModule has returned; the diagnostics are copied, the Resolver
\* and its Scope are constructed and Resolver.visitModule starts on the statements
ParseModule ==
  /\ pc = "parse"
  /\ Len(parserDiagnostics) = Len(source.errors)
  /\ module' = source.module
  /\ diagnostics' = parserDiagnostics
  /\ scopes' = <<ModuleScope>>
  /\ forwardReferences' = <<>>
  /\ hasBareImport' = FALSE
  /\ work' = VisitAll(source.module)
  /\ pc' = "resolve"
  /\ last' = Visited("Parser.parseModule", Nil, Nil)
  /\ UNCHANGED <<lexer, parser, source, sourceFile, parserDiagnostics, parseOnlyResult, env, currentReturnType,
                 currentClassName, classRegistry>>

\* parseOnly(): the same text parsed by a parser of its own; the result is a copy
\* of that parser's diagnostics
ParseOnly ==
  /\ pc = "done"
  /\ parseOnlyResult = Nil
  /\ parseOnlyResult' =
       [diagnostics |-> [i \in 1..Len(source.errors) |-> parseError(source.errors[i])]]
  /\ last' = Visited("parseOnly", Nil, Nil)
  /\ UNCHANGED <<lexer, parser, pc, source, sourceFile, module, parserDiagnostics, diagnostics, scopes,
                 forwardReferences, hasBareImport, env, currentReturnType,
                 currentClassName, classRegistry, work>>

-----------------------------------------------------------------------------
(* resolver.ts: class Resolver extends RecursiveVisitor *)

Resolving(kinds) ==
  /\ pc = "resolve"
  /\ work # <<>>
  /\ Head(work).k = "visit"
  /\ Head(work).n.kind \in kinds

\* What a Resolver handler leaves: the Scope fields X, the stack, the record of the visit
ResolverStep(op, X, pushed) ==
  /\ scopes' = X.scopes
  /\ forwardReferences' = X.forwardReferences
  /\ diagnostics' = X.diagnostics
  /\ work' = pushed \o Tail(work)
  /\ last' = Visited(op, Head(work).n, ScopeFields)
  /\ UNCHANGED <<lexer, parser, pc, source, sourceFile, module, parserDiagnostics, parseOnlyResult, env,
                 currentReturnType, currentClassName, classRegistry>>

\* scope.declare of each name of a list, in order
RECURSIVE declareAll(_, _)
declareAll(X, names) ==
  IF names = <<>> THEN X ELSE declareAll(declare(X, Head(names)), Tail(names))

ParameterNames(parameters) == [i \in 1..Len(parameters) |-> parameters[i].name]

\* Resolver.visitVarStmt
Resolver_visitVarStmt ==
  /\ Resolving({"VarStmt"})
  /\ LET node == Head(work).n
     IN ResolverStep("Resolver.visitVarStmt", declare(ScopeFields, node.name),
                     VisitIf(node.initializer))
  /\ UNCHANGED hasBareImport

\* Resolver.visitCallExpr
Resolver_visitCallExpr ==
  /\ Resolving({"CallExpr"})
  /\ LET node == Head(work).n
     IN ResolverStep("Resolver.visitCallExpr",
                     IF node.receiver # Nil THEN ScopeFields
                                            ELSE resolve(ScopeFields, node.name),
                     VisitIf(node.receiver)
                       \o (IF node.arguments.present THEN VisitAll(node.arguments.list)
                                                     ELSE <<>>)
                       \o VisitIf(node.blockArgument))
  /\ UNCHANGED hasBareImport

\* Resolver.visitBody
Resolver_visitBody ==
  /\ Resolving({"Body"})
  /\ LET node == Head(work).n
         params == IF node.parameters.present THEN ParameterNames(node.parameters.list)
                                              ELSE <<>>
     IN ResolverStep("Resolver.visitBody", declareAll(begin(ScopeFields), params),
                     VisitAll(DefaultChildren(node)) \o <<Then("scope.end")>>)
  /\ UNCHANGED hasBareImport

\* Resolver.visitBlockStmt
Resolver_visitBlockStmt ==
  /\ Resolving({"BlockStmt"})
  /\ ResolverStep("Resolver.visitBlockStmt", begin(ScopeFields),
                  VisitAll(DefaultChildren(Head(work).n)) \o <<Then("scope.end")>>)
  /\ UNCHANGED hasBareImport

\* Resolver.visitClassStmt
Resolver_visitClassStmt ==
  /\ Resolving({"ClassStmt"})
  /\ LET node == Head(work).n
     IN ResolverStep("Resolver.visitClassStmt", beginClass(declare(ScopeFields, node.name)),
                     VisitAll(DefaultChildren(node)) \o <<Then("scope.endClass")>>)
  /\ UNCHANGED hasBareImport

\* Resolver.visitForStmt
Resolver_visitForStmt ==
  /\ Resolving({"ForStmt"})
  /\ LET node == Head(work).n
     IN ResolverStep("Resolver.visitForStmt", declare(begin(ScopeFields), node.variable),
                     VisitAll(DefaultChildren(node)) \o <<Then("scope.end")>>)
  /\ UNCHANGED hasBareImport

\* Resolver.visitImportStmt
Resolver_visitImportStmt ==
  /\ Resolving({"ImportStmt"})
  /\ LET node == Head(work).n
     IN /\ ResolverStep("Resolver.visitImportStmt",
                        IF node.variables.present
                          THEN declareAll(ScopeFields, node.variables.list)
                          ELSE ScopeFields,
                        <<>>)
        /\ hasBareImport' = IF node.variables.present THEN hasBareImport ELSE TRUE

\* The handlers Resolver inherits from RecursiveVisitor
ResolverInherited ==
  {"NumExpr", "StringExpr", "BoolExpr", "NullExpr", "ThisExpr", "ListExpr", "MapExpr",
   "InterpolationExpr", "GroupingExpr", "InfixExpr", "AssignmentExpr", "ReturnStmt",
   "Method"}

Resolver_visitInherited ==
  /\ Resolving(ResolverInherited)
  /\ ResolverStep("RecursiveVisitor", ScopeFields, VisitAll(DefaultChildren(Head(work).n)))
  /\ UNCHANGED hasBareImport

\* The tail of visitBody, visitBlockStmt, visitForStmt (scope.end()) and of
\* visitClassStmt (scope.endClass())
Resolver_scopeEnd ==
  /\ pc = "resolve"
  /\ work # <<>>
  /\ Head(work).k \in {"scope.end", "scope.endClass"}
  /\ scopes' = (IF Head(work).k = "scope.end" THEN end(ScopeFields)
                                              ELSE endClass(ScopeFields)).scopes
  /\ work' = Tail(work)
  /\ last' = Visited(Head(work).k, Nil, ScopeFields)
  /\ UNCHANGED <<lexer, parser, pc, source, sourceFile, module, parserDiagnostics, parseOnlyResult, diagnostics,
                 forwardReferences, hasBareImport, env, currentReturnType,
                 currentClassName, classRegistry>>

\* The tail of Resolver.visitModule without its test of hasBareImport
Resolver_visitModule_always ==
  /\ pc = "resolve"
  /\ work = <<>>
  /\ diagnostics' = checkForwardReferences(ScopeFields).diagnostics
  /\ pc' = "check"
  /\ last' = Visited("Resolver.visitModule", Nil, ScopeFields)
  /\ UNCHANGED <<lexer, parser, source, sourceFile, module, parserDiagnostics, parseOnlyResult, scopes,
                 forwardReferences, hasBareImport, env, currentReturnType,
                 currentClassName, classRegistry, work>>

\* The tail of Resolver.visitModule; analyze() then constructs the TypeChecker
Resolver_visitModule ==
  /\ pc = "resolve"
  /\ work = <<>>
  /\ diagnostics' = (IF hasBareImport THEN ScopeFields
                                      ELSE checkForwardReferences(ScopeFields)).diagnostics
  /\ pc' = "check"
  /\ last' = Visited("Resolver.visitModule", Nil, ScopeFields)
  /\ UNCHANGED <<lexer, parser, source, sourceFile, module, parserDiagnostics, parseOnlyResult, scopes,
                 forwardReferences, hasBareImport, env, currentReturnType,
                 currentClassName, classRegistry, work>>

-----------------------------------------------------------------------------
(* type-checker.ts: the type environment, the inference functions, the     *)
(* class registry and the core tables                                      *)

\* null, where the source has string | null
NoType == "<null>"

EmptyEnvironment == [declaredScopes |-> <<{}>>, inferredScopes |-> <<{}>>]

MapSet(map, name, typeName) ==
  {e \in map : e.name # name} \cup {[name |-> name, type |-> typeName]}

\* TypeEnvironment.push
envPush(e) == [declaredScopes |-> Append(e.declaredScopes, {}),
               inferredScopes |-> Append(e.inferredScopes, {})]

\* TypeEnvironment.pop
envPop(e) == [declaredScopes |-> SubSeq(e.declaredScopes, 1, Len(e.declaredScopes) - 1),
              inferredScopes |-> SubSeq(e.inferredScopes, 1, Len(e.inferredScopes) - 1)]

\* TypeEnvironment.setDeclared
setDeclared(e, name, typeName) ==
  [declaredScopes |-> [e.declaredScopes EXCEPT ![Len(e.declaredScopes)] = MapSet(@, name, typeName)],
   inferredScopes |-> [e.inferredScopes EXCEPT ![Len(e.inferredScopes)] = MapSet(@, name, typeName)]]

\* TypeEnvironment.setInferred
setInferred(e, name, typeName) ==
  [e EXCEPT !.inferredScopes[Len(e.inferredScopes)] = MapSet(@, name, typeName)]

\* The loop of getDeclared and of get, from scope i outward
RECURSIVE envLookup(_, _, _)
envLookup(scs, i, name) ==
  IF i = 0 THEN NoType
  ELSE IF \E e \in scs[i] : e.name = name
       THEN (CHOOSE e \in scs[i] : e.name = name).type
       ELSE envLookup(scs, i - 1, name)

\* getDeclared answering with inferred types too
getDeclared_orInferred(e, name) ==
  IF envLookup(e.declaredScopes, Len(e.declaredScopes), name) # NoType
    THEN envLookup(e.declaredScopes, Len(e.declaredScopes), name)
    ELSE envLookup(e.inferredScopes, Len(e.inferredScopes), name)

\* TypeEnvironment.getDeclared
getDeclared(e, name) == envLookup(e.declaredScopes, Len(e.declaredScopes), name)

\* TypeEnvironment.get
envGet(e, name) == envLookup(e.inferredScopes, Len(e.inferredScopes), name)

\* inferType(expr)
inferType(expr) ==
  CASE expr.kind = "NumExpr" -> "Num"
    [] expr.kind = "StringExpr" -> "String"
    [] expr.kind = "BoolExpr" -> "Bool"
    [] expr.kind = "NullExpr" -> "Null"
    [] expr.kind = "ListExpr" -> "List"
    [] expr.kind = "MapExpr" -> "Map"
    [] expr.kind = "InterpolationExpr" -> "String"
    [] OTHER -> NoType

\* getReceiverClassName(expr)
getReceiverClassName(expr) ==
  IF expr.kind = "CallExpr" /\ expr.receiver = Nil /\ ~expr.arguments.present
       /\ startsUpper(expr.name.text)
    THEN expr.name.text
    ELSE NoType

\* inferExprType(expr, env)
RECURSIVE inferExprType(_, _)
inferExprType(expr, e) ==
  IF inferType(expr) # NoType THEN inferType(expr)
  ELSE IF expr.kind = "CallExpr" /\ expr.receiver = Nil /\ ~expr.arguments.present
    THEN envGet(e, expr.name.text)
  ELSE IF expr.kind = "CallExpr" /\ expr.receiver # Nil /\ expr.name.text = "new"
            /\ getReceiverClassName(expr.receiver) # NoType
    THEN getReceiverClassName(expr.receiver)
  ELSE IF expr.kind = "GroupingExpr" THEN inferExprType(expr.expression, e)
  ELSE NoType

\* method.isSetter: the property is read from whatever object the parser built
isSetter(method) == "isSetter" \in DOMAIN method /\ method.isSetter

MethodNames(methods) == {methods[i].name.text : i \in 1..Len(methods)}

\* registerClass(registry, cls): the ClassInfo it stores
ClassInfo(cls) ==
  LET isStatic(m) == m.staticKeyword # Nil \/ m.constructKeyword # Nil
      setterStatic(m) == isSetter(m) /\ m.staticKeyword # Nil
      setterInstance(m) == isSetter(m) /\ m.staticKeyword = Nil
  IN [name |-> cls.name.text,
      instanceMethods |->
        MethodNames(SelectSeq(cls.methods, LAMBDA m : ~isStatic(m)))
          \cup {n \o "=" : n \in MethodNames(SelectSeq(cls.methods, setterInstance))},
      staticMethods |->
        MethodNames(SelectSeq(cls.methods, isStatic))
          \cup {n \o "=" : n \in MethodNames(SelectSeq(cls.methods, setterStatic))},
      superclass |-> IF cls.superclass # Nil THEN cls.superclass.text ELSE NoType]

registerClass(registry, cls) ==
  {c \in registry : c.name # cls.name.text} \cup {ClassInfo(cls)}

\* buildClassRegistry(module)
RECURSIVE buildClassRegistryFrom(_, _)
buildClassRegistryFrom(registry, statements) ==
  IF statements = <<>> THEN registry
  ELSE buildClassRegistryFrom(
         IF Head(statements).kind = "ClassStmt" THEN registerClass(registry, Head(statements))
                                                ELSE registry,
         Tail(statements))

buildClassRegistry(statements) == buildClassRegistryFrom({}, statements)

RegistryHas(registry, name) == \E c \in registry : c.name = name
RegistryGet(registry, name) == CHOOSE c \in registry : c.name = name

CoreInstanceClasses ==
  {"Object", "Bool", "Null", "Num", "String", "List", "Map", "Range", "Fiber", "Fn", "Sequence"}

CORE_INSTANCE_METHODS ==
  [c \in CoreInstanceClasses |->
    CASE c = "Object" -> {"toString", "type", "is"}
      [] c = "Bool" -> {"toString"}
      [] c = "Null" -> {"toString"}
      [] c = "Num" -> {"abs", "acos", "asin", "atan", "cbrt", "ceil", "cos", "floor",
                       "round", "sin", "sqrt", "tan", "log", "log2", "exp", "pow",
                       "fraction", "truncate", "sign", "isInteger", "isNan", "isInfinity",
                       "min", "max", "clamp", "toString"}
      [] c = "String" -> {"contains", "count", "endsWith", "indexOf", "replace", "split",
                          "startsWith", "trim", "trimEnd", "trimStart", "bytes",
                          "codePoints", "toString", "iterate", "iteratorValue"}
      [] c = "List" -> {"add", "addAll", "clear", "count", "indexOf", "insert", "iterate",
                        "iteratorValue", "remove", "removeAt", "sort", "swap", "toString"}
      [] c = "Map" -> {"clear", "containsKey", "count", "keys", "values", "iterate",
                       "remove", "toString"}
      [] c = "Range" -> {"from", "to", "min", "max", "isInclusive", "iterate",
                         "iteratorValue", "toString"}
      [] c = "Fiber" -> {"call", "error", "isDone", "transfer", "transferError", "try"}
      [] c = "Fn" -> {"arity", "call", "toString"}
      [] c = "Sequence" -> {"all", "any", "contains", "count", "each", "isEmpty", "map",
                            "skip", "take", "where", "reduce", "join", "toList", "toString"}]

CORE_SUPERCLASS ==
  [c \in {"List", "Map", "Range", "String"} |-> "Sequence"]

CoreStaticClasses == {"Object", "Num", "String", "List", "Map", "Fiber", "Fn", "System"}

CORE_STATIC_METHODS ==
  [c \in CoreStaticClasses |->
    CASE c = "Object" -> {"same"}
      [] c = "Num" -> {"fromString", "infinity", "nan", "pi", "tau", "largest", "smallest",
                       "maxSafeInteger", "minSafeInteger"}
      [] c = "String" -> {"fromCodePoint", "fromByte"}
      [] c = "List" -> {"new", "filled"}
      [] c = "Map" -> {"new"}
      [] c = "Fiber" -> {"new", "abort", "current", "suspend", "yield"}
      [] c = "Fn" -> {"new"}
      [] c = "System" -> {"print", "printAll", "write", "writeAll", "clock", "gc"}]

-----------------------------------------------------------------------------
(* type-checker.ts: class TypeChecker extends RecursiveVisitor *)

\* exprSpan(expr), for the kinds a warning is placed on
exprSpan(expr) ==
  CASE expr.kind \in {"NumExpr", "StringExpr", "BoolExpr", "NullExpr"} ->
         [start |-> expr.value.start, length |-> expr.value.length]
    [] expr.kind = "ListExpr" ->
         [start |-> expr.leftBracket.start,
          length |-> expr.rightBracket.start + expr.rightBracket.length
                       - expr.leftBracket.start]
    [] expr.kind = "MapExpr" ->
         [start |-> expr.leftBrace.start,
          length |-> expr.rightBrace.start + expr.rightBrace.length - expr.leftBrace.start]
    [] expr.kind = "InterpolationExpr" ->
         [start |-> expr.strings[1].start, length |-> expr.strings[1].length]
    [] expr.kind = "CallExpr" -> [start |-> expr.name.start, length |-> expr.name.length]
    [] expr.kind = "InfixExpr" ->
         [start |-> expr.operator.start, length |-> expr.operator.length]
    [] expr.kind = "AssignmentExpr" ->
         [start |-> expr.equal.start, length |-> expr.equal.length]
    [] expr.kind = "GroupingExpr" ->
         [start |-> expr.leftParen.start, length |-> expr.leftParen.length]
    [] expr.kind = "ThisExpr" ->
         [start |-> expr.keyword.start, length |-> expr.keyword.length]

\* TypeChecker.warn(message, node, code): the diagnostic it pushes
warn(mentions, node, code) ==
  LET span == IF "kind" \in DOMAIN node THEN exprSpan(node)
                                        ELSE [start |-> node.start, length |-> node.length]
  IN Diagnostic("warning", code, span.start, span.length, mentions)

\* The parameters of a method or body that carry an annotation, declared in order
RECURSIVE declareParameters(_, _)
declareParameters(e, parameters) ==
  IF parameters = <<>> THEN e
  ELSE declareParameters(
         IF Head(parameters).typeAnnotation # Nil
           THEN setDeclared(e, Head(parameters).name.text,
                            Head(parameters).typeAnnotation.name.text)
           ELSE e,
         Tail(parameters))

\* The warnings of TypeChecker.visitVarStmt, the mismatch placed on the variable's name
varStmtWarnings_onName(node) ==
  (IF node.typeAnnotation # Nil /\ node.initializer # Nil
        /\ inferType(node.initializer) # NoType
        /\ inferType(node.initializer) # node.typeAnnotation.name.text
     THEN <<warn(<<node.name.text, node.typeAnnotation.name.text,
                   inferType(node.initializer)>>, node.name, "type-mismatch")>>
     ELSE <<>>)
  \o
  (IF node.typeAnnotation # Nil /\ node.initializer = Nil
        /\ node.typeAnnotation.name.text # "Null"
     THEN <<warn(<<node.name.text, node.typeAnnotation.name.text, "no initializer">>,
                 node.name, "type-mismatch")>>
     ELSE <<>>)

\* The warnings of TypeChecker.visitVarStmt
varStmtWarnings(node) ==
  (IF node.typeAnnotation # Nil /\ node.initializer # Nil
        /\ inferType(node.initializer) # NoType
        /\ inferType(node.initializer) # node.typeAnnotation.name.text
     THEN <<warn(<<node.name.text, node.typeAnnotation.name.text,
                   inferType(node.initializer)>>, node.initializer, "type-mismatch")>>
     ELSE <<>>)
  \o
  (IF node.typeAnnotation # Nil /\ node.initializer = Nil
        /\ node.typeAnnotation.name.text # "Null"
     THEN <<warn(<<node.name.text, node.typeAnnotation.name.text, "no initializer">>,
                 node.name, "type-mismatch")>>
     ELSE <<>>)

\* The environment TypeChecker.visitVarStmt leaves
varStmtEnvironment(e, node) ==
  IF node.typeAnnotation # Nil
    THEN setDeclared(e, node.name.text, node.typeAnnotation.name.text)
  ELSE IF node.initializer # Nil /\ inferExprType(node.initializer, e) # NoType
    THEN setInferred(e, node.name.text, inferExprType(node.initializer, e))
  ELSE e

\* The warnings of TypeChecker.visitAssignmentExpr
assignmentWarnings(e, node) ==
  IF node.target.kind = "CallExpr" /\ node.target.receiver = Nil
       /\ getDeclared(e, node.target.name.text) # NoType
       /\ inferType(node.value) # NoType
       /\ inferType(node.value) # getDeclared(e, node.target.name.text)
    THEN <<warn(<<node.target.name.text, getDeclared(e, node.target.name.text),
                  inferType(node.value)>>, node.value, "type-mismatch")>>
    ELSE <<>>

\* TypeChecker.checkStaticMethodExists without the exemption of attributes
checkStaticMethodExists_noAttributes(registry, className, methodName, node) ==
  IF RegistryHas(registry, className)
    THEN IF methodName \notin RegistryGet(registry, className).staticMethods
           THEN <<warn(<<className, methodName, "static">>, node.name, "unknown-method")>>
           ELSE <<>>
  ELSE IF className \in DOMAIN CORE_STATIC_METHODS
    THEN IF methodName \notin CORE_STATIC_METHODS[className]
           THEN <<warn(<<className, methodName, "static">>, node.name, "unknown-method")>>
           ELSE <<>>
  ELSE <<>>

\* TypeChecker.checkStaticMethodExists
checkStaticMethodExists(registry, className, methodName, node) ==
  IF methodName = "attributes" THEN <<>>
  ELSE IF RegistryHas(registry, className)
    THEN IF methodName \notin RegistryGet(registry, className).staticMethods
           THEN <<warn(<<className, methodName, "static">>, node.name, "unknown-method")>>
           ELSE <<>>
  ELSE IF className \in DOMAIN CORE_STATIC_METHODS
    THEN IF methodName \notin CORE_STATIC_METHODS[className]
           THEN <<warn(<<className, methodName, "static">>, node.name, "unknown-method")>>
           ELSE <<>>
  ELSE <<>>

\* The loop of checkInstanceMethodExists looking at the receiver's class only
instanceWalk_noInheritance(registry, current, visited, knownClass, methodName) ==
  IF current = NoType THEN [found |-> FALSE, knownClass |-> knownClass]
  ELSE IF RegistryHas(registry, current)
    THEN [found |-> methodName \in RegistryGet(registry, current).instanceMethods,
          knownClass |-> TRUE]
  ELSE IF current \in DOMAIN CORE_INSTANCE_METHODS
    THEN [found |-> methodName \in CORE_INSTANCE_METHODS[current], knownClass |-> TRUE]
  ELSE [found |-> FALSE, knownClass |-> knownClass]

\* The loop of checkInstanceMethodExists: whether it returned from inside the loop
\* (found), and knownClass when it left the loop
RECURSIVE instanceWalk(_, _, _, _, _)
instanceWalk(registry, current, visited, knownClass, methodName) ==
  IF current = NoType \/ current \in visited
    THEN [found |-> FALSE, knownClass |-> knownClass]
  ELSE IF RegistryHas(registry, current)
    THEN IF methodName \in RegistryGet(registry, current).instanceMethods
           THEN [found |-> TRUE, knownClass |-> TRUE]
           ELSE instanceWalk(registry, RegistryGet(registry, current).superclass,
                             visited \cup {current}, TRUE, methodName)
  ELSE IF current \in DOMAIN CORE_INSTANCE_METHODS
    THEN IF methodName \in CORE_INSTANCE_METHODS[current]
           THEN [found |-> TRUE, knownClass |-> TRUE]
           ELSE instanceWalk(registry,
                             IF current \in DOMAIN CORE_SUPERCLASS
                               THEN CORE_SUPERCLASS[current] ELSE NoType,
                             visited \cup {current}, TRUE, methodName)
  ELSE [found |-> FALSE, knownClass |-> knownClass]

\* TypeChecker.checkInstanceMethodExists
checkInstanceMethodExists(registry, typeName, methodName, node) ==
  LET walked == instanceWalk(registry, typeName, {}, FALSE, methodName)
  IN IF walked.found \/ ~walked.knownClass THEN <<>>
     ELSE IF methodName \in CORE_INSTANCE_METHODS["Object"] THEN <<>>
     ELSE <<warn(<<typeName, methodName, "instance">>, node.name, "unknown-method")>>

\* TypeChecker.inferReceiverType
inferReceiverType(e, className, expr) ==
  IF expr.kind = "ThisExpr" THEN className
  ELSE IF expr.kind = "CallExpr" /\ expr.receiver = Nil /\ ~expr.arguments.present
    THEN envGet(e, expr.name.text)
  ELSE inferType(expr)

\* TypeChecker.checkMethodExists, for a node with a receiver
checkMethodExists(registry, e, className, node) ==
  IF getReceiverClassName(node.receiver) # NoType
    THEN checkStaticMethodExists(registry, getReceiverClassName(node.receiver),
                                 node.name.text, node)
  ELSE IF inferReceiverType(e, className, node.receiver) \notin {NoType, "Null"}
    THEN checkInstanceMethodExists(registry, inferReceiverType(e, className, node.receiver),
                                   node.name.text, node)
  ELSE <<>>

\* The warnings of TypeChecker.visitBody: a single-expression body as implicit return
bodyWarnings(returnType, node) ==
  IF node.expression # Nil /\ returnType # NoType
       /\ inferType(node.expression) # NoType /\ inferType(node.expression) # returnType
    THEN <<warn(<<returnType, inferType(node.expression)>>, node.expression,
                "type-mismatch")>>
    ELSE <<>>

\* The warnings of TypeChecker.visitReturnStmt
returnWarnings(returnType, node) ==
  IF returnType = NoType THEN <<>>
  ELSE IF node.value # Nil
    THEN IF inferType(node.value) # NoType /\ inferType(node.value) # returnType
           THEN <<warn(<<returnType, inferType(node.value)>>, node.value, "type-mismatch")>>
           ELSE <<>>
  ELSE IF returnType # "Null"
    THEN <<warn(<<returnType, "Null">>, node.keyword, "type-mismatch")>>
    ELSE <<>>

CheckerFields == [env |-> env, currentReturnType |-> currentReturnType,
                  currentClassName |-> currentClassName, diagnostics |-> diagnostics]

Checking(kinds) ==
  /\ pc = "check"
  /\ work # <<>>
  /\ Head(work).k = "visit"
  /\ Head(work).n.kind \in kinds

\* What a TypeChecker handler leaves: the environment, the warnings it pushed,
\* the stack, the record of the visit
CheckerStep(op, e, warnings, pushed) ==
  /\ env' = e
  /\ diagnostics' = diagnostics \o warnings
  /\ work' = pushed \o Tail(work)
  /\ last' = Visited(op, Head(work).n, CheckerFields)
  /\ UNCHANGED <<lexer, parser, pc, source, sourceFile, module, parserDiagnostics, parseOnlyResult, scopes,
                 forwardReferences, hasBareImport, classRegistry>>

\* TypeChecker.check without its test for earlier errors
TypeChecker_check_always ==
  /\ pc = "check"
  /\ last.op = "Resolver.visitModule"
  /\ classRegistry' = buildClassRegistry(module)
  /\ work' = VisitAll(module)
  /\ last' = Visited("TypeChecker.check", Nil, CheckerFields)
  /\ UNCHANGED <<lexer, parser, pc, source, sourceFile, module, parserDiagnostics, parseOnlyResult, diagnostics, scopes,
                 forwardReferences, hasBareImport, env, currentReturnType,
                 currentClassName>>

\* TypeChecker.check
TypeChecker_check ==
  /\ pc = "check"
  /\ last.op = "Resolver.visitModule"
  /\ LET hasErrors == \E i \in 1..Len(diagnostics) : diagnostics[i].severity = "error"
     IN /\ pc' = IF hasErrors THEN "done" ELSE "check"
        /\ classRegistry' = IF hasErrors THEN classRegistry ELSE buildClassRegistry(module)
        /\ work' = IF hasErrors THEN <<>> ELSE VisitAll(module)
  /\ last' = Visited("TypeChecker.check", Nil, CheckerFields)
  /\ UNCHANGED <<lexer, parser, source, sourceFile, module, parserDiagnostics, parseOnlyResult, diagnostics, scopes,
                 forwardReferences, hasBareImport, env, currentReturnType,
                 currentClassName>>

\* TypeChecker.visitClassStmt
TypeChecker_visitClassStmt ==
  /\ Checking({"ClassStmt"})
  /\ LET node == Head(work).n
     IN /\ CheckerStep("TypeChecker.visitClassStmt", env, <<>>,
                       VisitAll(DefaultChildren(node))
                         \o <<ThenRestore("visitClassStmt.tail", currentClassName)>>)
        /\ currentClassName' = node.name.text
  /\ UNCHANGED currentReturnType

\* TypeChecker.visitVarStmt
TypeChecker_visitVarStmt ==
  /\ Checking({"VarStmt"})
  /\ LET node == Head(work).n
     IN CheckerStep("TypeChecker.visitVarStmt", varStmtEnvironment(env, node),
                    varStmtWarnings(node), VisitAll(DefaultChildren(node)))
  /\ UNCHANGED <<currentReturnType, currentClassName>>

\* TypeChecker.visitForStmt
TypeChecker_visitForStmt ==
  /\ Checking({"ForStmt"})
  /\ LET node == Head(work).n
     IN IF node.typeAnnotation # Nil
          THEN CheckerStep("TypeChecker.visitForStmt",
                           setDeclared(envPush(env), node.variable.text,
                                       node.typeAnnotation.name.text),
                           <<>>,
                           <<Visit(node.iterator), Visit(node.body), Then("env.pop")>>)
          ELSE CheckerStep("TypeChecker.visitForStmt", env, <<>>,
                           VisitAll(DefaultChildren(node)))
  /\ UNCHANGED <<currentReturnType, currentClassName>>

\* TypeChecker.visitAssignmentExpr
TypeChecker_visitAssignmentExpr ==
  /\ Checking({"AssignmentExpr"})
  /\ LET node == Head(work).n
     IN CheckerStep("TypeChecker.visitAssignmentExpr", env, assignmentWarnings(env, node),
                    VisitAll(DefaultChildren(node)))
  /\ UNCHANGED <<currentReturnType, currentClassName>>

\* TypeChecker.visitCallExpr
TypeChecker_visitCallExpr ==
  /\ Checking({"CallExpr"})
  /\ LET node == Head(work).n
     IN CheckerStep("TypeChecker.visitCallExpr", env,
                    IF node.receiver # Nil
                      THEN checkMethodExists(classRegistry, env, currentClassName, node)
                      ELSE <<>>,
                    VisitAll(DefaultChildren(node)))
  /\ UNCHANGED <<currentReturnType, currentClassName>>

\* TypeChecker.visitMethod
TypeChecker_visitMethod ==
  /\ Checking({"Method"})
  /\ LET node == Head(work).n
     IN /\ CheckerStep("TypeChecker.visitMethod",
                       declareParameters(envPush(env),
                                         IF node.parameters.present
                                           THEN node.parameters.list ELSE <<>>),
                       <<>>,
                       VisitAll(DefaultChildren(node))
                         \o <<ThenRestore("visitMethod.tail", currentReturnType)>>)
        /\ currentReturnType' = IF node.returnType # Nil THEN node.returnType.name.text
                                                          ELSE NoType
  /\ UNCHANGED currentClassName

\* TypeChecker.visitBody
TypeChecker_visitBody ==
  /\ Checking({"Body"})
  /\ LET node == Head(work).n
     IN CheckerStep("TypeChecker.visitBody",
                    declareParameters(envPush(env),
                                      IF node.parameters.present
                                        THEN node.parameters.list ELSE <<>>),
                    bodyWarnings(currentReturnType, node),
                    VisitAll(DefaultChildren(node)) \o <<Then("env.pop")>>)
  /\ UNCHANGED <<currentReturnType, currentClassName>>

\* TypeChecker.visitReturnStmt
TypeChecker_visitReturnStmt ==
  /\ Checking({"ReturnStmt"})
  /\ LET node == Head(work).n
     IN CheckerStep("TypeChecker.visitReturnStmt", env,
                    returnWarnings(currentReturnType, node),
                    VisitAll(DefaultChildren(node)))
  /\ UNCHANGED <<currentReturnType, currentClassName>>

\* The handlers TypeChecker inherits from RecursiveVisitor
CheckerInherited ==
  {"NumExpr", "StringExpr", "BoolExpr", "NullExpr", "ThisExpr", "ListExpr", "MapExpr",
   "InterpolationExpr", "GroupingExpr", "InfixExpr", "BlockStmt", "ImportStmt"}

TypeChecker_visitInherited ==
  /\ Checking(CheckerInherited)
  /\ CheckerStep("RecursiveVisitor", env, <<>>, VisitAll(DefaultChildren(Head(work).n)))
  /\ UNCHANGED <<currentReturnType, currentClassName>>

\* The tails, visitMethod's not putting the saved return type back
TypeChecker_tail_keepReturnType ==
  /\ pc = "check"
  /\ work # <<>>
  /\ Head(work).k \in {"env.pop", "visitMethod.tail", "visitClassStmt.tail"}
  /\ env' = IF Head(work).k = "visitClassStmt.tail" THEN env ELSE envPop(env)
  /\ currentClassName' = IF Head(work).k = "visitClassStmt.tail" THEN Head(work).v
                                                                 ELSE currentClassName
  /\ work' = Tail(work)
  /\ last' = Visited(Head(work).k, Nil, CheckerFields)
  /\ UNCHANGED <<lexer, parser, pc, source, sourceFile, module, parserDiagnostics, parseOnlyResult, diagnostics,
                 scopes, forwardReferences, hasBareImport, classRegistry,
                 currentReturnType>>

\* The tails of visitForStmt and visitBody (env.pop()), of visitMethod (env.pop(),
\* then the saved return type) and of visitClassStmt (the saved class name)
TypeChecker_tail ==
  /\ pc = "check"
  /\ work # <<>>
  /\ Head(work).k \in {"env.pop", "visitMethod.tail", "visitClassStmt.tail"}
  /\ env' = IF Head(work).k = "visitClassStmt.tail" THEN env ELSE envPop(env)
  /\ currentReturnType' = IF Head(work).k = "visitMethod.tail" THEN Head(work).v
                                                               ELSE currentReturnType
  /\ currentClassName' = IF Head(work).k = "visitClassStmt.tail" THEN Head(work).v
                                                                 ELSE currentClassName
  /\ work' = Tail(work)
  /\ last' = Visited(Head(work).k, Nil, CheckerFields)
  /\ UNCHANGED <<lexer, parser, pc, source, sourceFile, module, parserDiagnostics, parseOnlyResult, diagnostics,
                 scopes, forwardReferences, hasBareImport, classRegistry>>

\* TypeChecker.visitModule has visited every statement: analyze() returns
AnalyzeReturn ==
  /\ pc = "check"
  /\ last.op # "Resolver.visitModule"
  /\ work = <<>>
  /\ pc' = "done"
  /\ last' = Visited("analyze", Nil, CheckerFields)
  /\ UNCHANGED <<lexer, parser, source, sourceFile, module, parserDiagnostics, parseOnlyResult, diagnostics, scopes,
                 forwardReferences, hasBareImport, env, currentReturnType,
                 currentClassName, classRegistry, work>>

-----------------------------------------------------------------------------
(* parser.ts: class Parser.  The parse functions are recursive in the      *)
(* source and are recursive operators here: each takes the Parser's fields *)
(* P and yields the node it built with the fields it leaves, Parsed(node, P).   *)
(* The Lexer the Parser reads from is given by the tokens it will return;  *)
(* taken records, in order, the tokens advance() has returned, and the    *)
(* newlines peekDotAfterNewline has consumed before a dot.                 *)

\* makeToken(source, type, start, length)
Token(type, text, start) ==
  [type |-> type, text |-> text, start |-> start, length |-> TextLength(text)]

\* The Eof token: readToken, entered at the end of the source, leaves start where
\* the token before set it, and so returns that token's span again
EofAfter(tokens) ==
  IF tokens = <<>> THEN [type |-> "eof", text |-> "", start |-> 0, length |-> 0]
  ELSE [type |-> "eof", text |-> tokens[Len(tokens)].text,
        start |-> tokens[Len(tokens)].start, length |-> tokens[Len(tokens)].length]

\* lexer.readToken(): the token, and the lexer after the call
readToken(lx) ==
  [token |-> IF lx.read < Len(lx.tokens) THEN lx.tokens[lx.read + 1]
                                          ELSE EofAfter(lx.tokens),
   lexer |-> [lx EXCEPT !.read = IF lx.read < Len(lx.tokens) THEN lx.read + 1
                                                              ELSE lx.read]]

\* new Parser(lexer)
NewParser(tokens) ==
  LET first == readToken([tokens |-> tokens, read |-> 0])
  IN [lexer |-> first.lexer, current |-> first.token, previous |-> Nil,
      lookahead |-> <<>>, diagnostics |-> <<>>, taken |-> <<>>]

Parsed(node, P) == [node |-> node, P |-> P]

\* A call's operand is evaluated before the call is made: first, then rest
Eager(first, rest) == IF first = first THEN rest ELSE rest

\* this.current = this.lexer.readToken()
readCurrent(P, next) == [P EXCEPT !.current = next.token, !.lexer = next.lexer]

\* Parser.peek(): the fields it leaves; the type it returns is that of current
peek(P) ==
  IF P.current # Nil THEN P
  ELSE IF P.lookahead # <<>>
    THEN [P EXCEPT !.current = Head(P.lookahead), !.lookahead = Tail(P.lookahead)]
  ELSE readCurrent(P, readToken(P.lexer))

peekType(P) == peek(P).current.type

\* Parser.advance(): the token it returns is previous
take(Q) ==
  [Q EXCEPT !.previous = Q.current, !.current = Nil, !.taken = Append(Q.taken, Q.current)]

advance(P) == take(peek(P))

\* Parser.error(message)
error(P, message) ==
  [P EXCEPT !.diagnostics =
     Append(P.diagnostics, parseError(IF P.current # Nil THEN P.current ELSE P.previous))]

\* Parser.matchAny(types)
matchAny(P, types) ==
  IF peekType(P) \in types THEN [ok |-> TRUE, P |-> advance(P)]
                           ELSE [ok |-> FALSE, P |-> peek(P)]

\* Parser.match(type)
match(P, type) == matchAny(P, {type})

\* while (this.match(TokenType.Line)) {}
RECURSIVE skipLines(_)
skipLines(P) == IF peekType(P) = "line" THEN skipLines(advance(P)) ELSE peek(P)

\* Parser.matchLine()
matchLine(P) ==
  IF peekType(P) = "line" THEN [ok |-> TRUE, P |-> skipLines(advance(P))]
                          ELSE [ok |-> FALSE, P |-> peek(P)]

\* Parser.ignoreLine()
ignoreLine(P) == matchLine(P).P

\* Parser.consume(type, message): the token it returns, whatever its type
expect(Q, type, message) ==
  [token |-> Q.previous, P |-> IF Q.previous.type # type THEN error(Q, message) ELSE Q]

consume(P, type, message) == expect(advance(P), type, message)

\* Parser.consumeLine(message)
consumeLine(P, message) == ignoreLine(consume(P, "line", message).P)

\* The loop of peekDotAfterNewline: read from the lexer past the newlines
RECURSIVE readPastLines(_, _)
readPastLines(lx, buffered) ==
  LET next == readToken(lx)
  IN IF next.token.type = "line"
       THEN readPastLines(next.lexer, Append(buffered, next.token))
       ELSE [lexer |-> next.lexer, buffered |-> buffered, next |-> next.token]

\* A peekDotAfterNewline that finds no dot after a newline
peekDotAfterNewline_never(P) == [ok |-> FALSE, P |-> peek(P)]

\* Parser.peekDotAfterNewline()
lookPastLines(Q, ahead) ==
  IF ahead.next.type = "dot"
    THEN [ok |-> TRUE, P |-> [Q EXCEPT !.lexer = ahead.lexer, !.current = ahead.next,
                                       !.taken = @ \o ahead.buffered]]
  ELSE [ok |-> FALSE,
        P |-> [Q EXCEPT !.lexer = ahead.lexer,
                        !.lookahead = Tail(ahead.buffered) \o <<ahead.next>>,
                        !.current = ahead.buffered[1]]]

peekDotAfterNewline(P) ==
  IF peekType(P) # "line" THEN [ok |-> FALSE, P |-> peek(P)]
  ELSE lookPastLines(peek(P), readPastLines(peek(P).lexer, <<peek(P).current>>))

\* The operator tables of parser.ts
PREFIX_OPERATORS == {"minus", "bang", "tilde"}
INFIX_OPERATORS ==
  {"pipePipe", "ampAmp", "equalEqual", "bangEqual", "is", "less", "lessEqual", "greater",
   "greaterEqual", "pipe", "caret", "amp", "lessLess", "greaterGreater", "dotDot",
   "dotDotDot", "plus", "minus", "star", "slash", "percent"}

\* logicalOr, logicalAnd, equality, typeTest, comparison, bitwiseOr, bitwiseXor,
\* bitwiseAnd, bitwiseShift, range, term, factor: the operators of each, outermost first
InfixLevels ==
  <<{"pipePipe"}, {"ampAmp"}, {"equalEqual", "bangEqual"}, {"is"},
    {"less", "lessEqual", "greater", "greaterEqual"}, {"pipe"}, {"caret"}, {"amp"},
    {"lessLess", "greaterGreater"}, {"dotDot", "dotDotDot"}, {"plus", "minus"},
    {"star", "slash", "percent"}>>

\* The nodes only the Parser's own inputs contain
FieldExpr(name) == [kind |-> "FieldExpr", name |-> name]
StaticFieldExpr(name) == [kind |-> "StaticFieldExpr", name |-> name]
PrefixExpr(operator, right) == [kind |-> "PrefixExpr", operator |-> operator, right |-> right]
SubscriptExpr(receiver, leftBracket, arguments, rightBracket) ==
  [kind |-> "SubscriptExpr", receiver |-> receiver, leftBracket |-> leftBracket,
   arguments |-> arguments, rightBracket |-> rightBracket]
ConditionalExpr(condition, question, thenBranch, colon, elseBranch) ==
  [kind |-> "ConditionalExpr", condition |-> condition, question |-> question,
   thenBranch |-> thenBranch, colon |-> colon, elseBranch |-> elseBranch]
SuperExpr(name, arguments, blockArgument) ==
  [kind |-> "SuperExpr", name |-> name, arguments |-> arguments,
   blockArgument |-> blockArgument]
IfStmt(condition, thenBranch, elseBranch) ==
  [kind |-> "IfStmt", condition |-> condition, thenBranch |-> thenBranch,
   elseBranch |-> elseBranch]
WhileStmt(condition, body) == [kind |-> "WhileStmt", condition |-> condition, body |-> body]
BreakStmt(keyword) == [kind |-> "BreakStmt", keyword |-> keyword]
ContinueStmt(keyword) == [kind |-> "ContinueStmt", keyword |-> keyword]
MapEntry(key, value) == [key |-> key, value |-> value]
Module(statements) == [kind |-> "Module", statements |-> statements]

RECURSIVE invoke(_, _)

\* Parser.parseTypeAnnotation()
parseTypeAnnotation(P) ==
  LET m == match(P, "colon")
      name == consume(m.P, "name", "Expect type name after ':'.")
  IN IF ~m.ok THEN Parsed(Nil, m.P)
     ELSE IF name.token.type # "name" THEN Parsed(Nil, name.P)
     ELSE Parsed(TypeAnnotation(name.token), name.P)

\* Parser.parseReturnTypeAnnotation()
parseReturnTypeAnnotation(P) ==
  LET m == match(P, "arrow")
      name == consume(m.P, "name", "Expect type name after '->'.")
  IN IF ~m.ok THEN Parsed(Nil, m.P)
     ELSE IF name.token.type # "name" THEN Parsed(Nil, name.P)
     ELSE Parsed(TypeAnnotation(name.token), name.P)

\* Parser.parameterList(): its loop
RECURSIVE parameterLoop(_, _)
parameterLoop(P, parameters) ==
  LET name == consume(P, "name", "Expect parameter name.")
      typeAnnotation == parseTypeAnnotation(name.P)
      pushed == Append(parameters, Parameter(name.token, typeAnnotation.node))
      m == match(typeAnnotation.P, "comma")
  IN IF ~m.ok THEN Parsed(pushed, m.P) ELSE parameterLoop(ignoreLine(m.P), pushed)

parameterList(P) == parameterLoop(P, <<>>)

\* Parser.argumentList()
argumentLoop(P, args) ==
  LET e == invoke("expression", <<P>>)
      pushed == Append(args, e.node)
      m == match(e.P, "comma")
  IN Eager(e, IF ~m.ok THEN Parsed(pushed, m.P) ELSE invoke("argumentLoop", <<ignoreLine(m.P), pushed>>))

argumentList(P) == invoke("argumentLoop", <<ignoreLine(P), <<>>>>)

\* Parser.finishCall(): [args, blockArgument]
finishCall(P) ==
  LET m1 == match(P, "leftParen")
      m2 == match(ignoreLine(m1.P), "rightParen")
      list == argumentList(m2.P)
      close == consume(ignoreLine(list.P), "rightParen", "Expect ')' after arguments.")
      args == IF ~m1.ok THEN Parsed(NullList, m1.P)
              ELSE IF m2.ok THEN Parsed(ListOf(<<>>), m2.P)
              ELSE Eager(list, Parsed(ListOf(list.node), close.P))
      m3 == match(args.P, "leftBrace")
      m4 == match(m3.P, "pipe")
      given == parameterList(m4.P)
      pipe == consume(given.P, "pipe", "Expect '|' after block parameters.")
      parameters == IF m4.ok THEN Parsed(ListOf(given.node), pipe.P) ELSE Parsed(NullList, m4.P)
      body == invoke("finishBody", <<parameters.P, parameters.node>>)
  IN Eager(args,
           IF m3.ok THEN Eager(body, [args |-> args.node, blockArgument |-> body.node,
                                      P |-> body.P])
                    ELSE [args |-> args.node, blockArgument |-> Nil, P |-> m3.P])

\* Parser.methodCall(receiver, name)
methodCall(P, receiver, name) ==
  LET f == invoke("finishCall", <<P>>)
  IN Eager(f, Parsed(CallExpr(receiver, name, f.args, f.blockArgument), f.P))

\* Parser.finishBody(parameters): the loop over the statements of a block body
bodyLoop(P, statements) ==
  LET Q == peek(P)
      d == invoke("definition", <<Q>>)
      pushed == Append(statements, d.node)
      m == match(consumeLine(d.P, "Expect newline after statement."), "rightBrace")
  IN IF Q.current.type = "eof" THEN Parsed(statements, Q)
     ELSE Eager(d, IF m.ok THEN Parsed(pushed, m.P) ELSE invoke("bodyLoop", <<m.P, pushed>>))

\* Parser.finishBody(parameters)
finishBody(P, parameters) ==
  LET m1 == match(P, "rightBrace")
      line == matchLine(m1.P)
      e == invoke("expression", <<line.P>>)
      close == consume(ignoreLine(e.P), "rightBrace", "Expect '}' at end of block.")
      m2 == match(line.P, "rightBrace")
      statements == invoke("bodyLoop", <<m2.P, <<>>>>)
  IN IF m1.ok THEN Parsed(Body(parameters, Nil, ListOf(<<>>)), m1.P)
     ELSE IF ~line.ok THEN Eager(e, Parsed(Body(parameters, e.node, NullList), close.P))
     ELSE IF m2.ok THEN Parsed(Body(parameters, Nil, ListOf(<<>>)), m2.P)
     ELSE Eager(statements,
                Parsed(Body(parameters, Nil, ListOf(statements.node)), statements.P))

\* Parser.expression()
expression(P) == invoke("assignment", <<P>>)

\* Parser.assignment()
assignment(P) ==
  LET expr == invoke("conditional", <<P>>)
      m == match(expr.P, "equal")
      value == invoke("assignment", <<m.P>>)
  IN Eager(expr, IF ~m.ok THEN Parsed(expr.node, m.P)
                 ELSE Eager(value, Parsed(AssignmentExpr(expr.node, m.P.previous, value.node),
                                          value.P)))

\* Parser.conditional()
conditional(P) ==
  LET expr == invoke("parseInfix", <<1, P>>)
      m == match(expr.P, "question")
      thenBranch == invoke("assignment", <<ignoreLine(m.P)>>)
      colon == consume(thenBranch.P, "colon",
                       "Expect ':' after then branch of conditional operator.")
      elseBranch == invoke("assignment", <<ignoreLine(colon.P)>>)
  IN Eager(expr, IF ~m.ok THEN Parsed(expr.node, m.P)
                 ELSE Eager(thenBranch, Eager(elseBranch,
                        Parsed(ConditionalExpr(expr.node, m.P.previous, thenBranch.node,
                                               colon.token, elseBranch.node),
                               elseBranch.P))))

\* Parser.parseInfix(tokenTypes, parseOperand): the loop of the level-th of
\* logicalOr ... factor, once its left operand is parsed
infixLoop(level, P, expr) ==
  LET m == matchAny(P, InfixLevels[level])
      right == invoke("parseInfix", <<level + 1, ignoreLine(m.P)>>)
  IN IF ~m.ok THEN Parsed(expr, m.P)
     ELSE Eager(right, invoke("infixLoop", <<level, right.P, InfixExpr(expr, m.P.previous, right.node)>>))

\* The loops of factor, term, ... down to the level asked for, in the order the nested
\* calls of the source run them: each takes what the level above it has parsed
infixUp(level, to, left) ==
  Eager(left, IF level < to THEN left
              ELSE invoke("infixUp", <<level - 1, to, invoke("infixLoop", <<level, left.P, left.node>>)>>))

\* logicalOr() ... factor(): the level-th of them; prefix() is the operand of factor()
parseInfix(level, P) ==
  LET operand == invoke("prefix", <<P>>)
  IN Eager(operand, invoke("infixUp", <<Len(InfixLevels), level, operand>>))

\* Parser.prefix()
prefix(P) ==
  LET m == matchAny(P, PREFIX_OPERATORS)
      right == invoke("prefix", <<m.P>>)
  IN IF m.ok THEN Eager(right, Parsed(PrefixExpr(m.P.previous, right.node), right.P))
             ELSE invoke("call", <<m.P>>)

\* Parser.call(): its loop
callLoop(P, expr) ==
  LET m1 == match(P, "leftBracket")
      args == argumentList(m1.P)
      rightBracket == consume(ignoreLine(args.P), "rightBracket",
                              "Expect ']' after subscript arguments.")
      m2 == match(m1.P, "dot")
      name == consume(ignoreLine(m2.P), "name", "Expect method name after '.'.")
      sent == invoke("methodCall", <<name.P, expr, name.token>>)
      dot == peekDotAfterNewline(m2.P)
      chained == consume(ignoreLine(advance(ignoreLine(dot.P))), "name",
                         "Expect method name after '.'.")
      sentChained == invoke("methodCall", <<chained.P, expr, chained.token>>)
  IN IF m1.ok
       THEN Eager(args, invoke("callLoop", <<rightBracket.P,
                                 SubscriptExpr(expr, m1.P.previous, args.node,
                                               rightBracket.token)>>))
     ELSE IF m2.ok THEN Eager(sent, invoke("callLoop", <<sent.P, sent.node>>))
     ELSE IF dot.ok THEN Eager(sentChained, invoke("callLoop", <<sentChained.P, sentChained.node>>))
     ELSE Parsed(expr, dot.P)

call(P) == LET expr == invoke("primary", <<P>>) IN Eager(expr, invoke("callLoop", <<expr.P, expr.node>>))

\* Parser.primary(): the first match that succeeds
primary(P) ==
  LET Q == peek(P)
      type == Q.current.type
      A == advance(Q)
  IN CASE type = "leftParen" -> invoke("grouping", <<A>>)
       [] type = "leftBracket" ->
            LET elements == invoke("listLoop", <<ignoreLine(A), <<>>>>)
                rightBracket == consume(elements.P, "rightBracket",
                                        "Expect ']' after list elements.")
            IN Parsed(ListExpr(A.previous, elements.node, rightBracket.token), rightBracket.P)
       [] type = "leftBrace" ->
            LET entries == invoke("mapLoop", <<ignoreLine(A), <<>>>>)
                rightBrace == consume(entries.P, "rightBrace",
                                      "Expect '}' after map entries.")
            IN Parsed(MapExpr(A.previous, entries.node, rightBrace.token), rightBrace.P)
       [] type = "name" -> invoke("methodCall", <<A, Nil, A.previous>>)
       [] type = "super" -> invoke("superCall", <<A>>)
       [] type \in {"false", "true"} -> Parsed(BoolExpr(A.previous), A)
       [] type = "null" -> Parsed(NullExpr(A.previous), A)
       [] type = "this" -> Parsed(ThisExpr(A.previous), A)
       [] type = "field" -> Parsed(FieldExpr(A.previous), A)
       [] type = "staticField" -> Parsed(StaticFieldExpr(A.previous), A)
       [] type = "number" -> Parsed(NumExpr(A.previous), A)
       [] type = "string" -> Parsed(StringExpr(A.previous), A)
       [] type = "interpolation" -> invoke("interpolationLoop", <<Q, <<>>, <<>>>>)
       [] OTHER -> Parsed(NullExpr(Q.previous), error(Q, "Expect expression."))

\* Parser.grouping()
grouping(P) ==
  LET e == invoke("expression", <<ignoreLine(P)>>)
      rightParen == consume(ignoreLine(e.P), "rightParen", "Expect ')' after expression.")
  IN Eager(e, Parsed(GroupingExpr(P.previous, e.node, rightParen.token), rightParen.P))

\* Parser.listLiteral(): its loop
listLoop(P, elements) ==
  LET Q == peek(P)
      e == invoke("expression", <<Q>>)
      pushed == Append(elements, e.node)
      m == match(ignoreLine(e.P), "comma")
  IN IF Q.current.type = "rightBracket" THEN Parsed(elements, Q)
     ELSE Eager(e, IF ~m.ok THEN Parsed(pushed, m.P) ELSE invoke("listLoop", <<ignoreLine(m.P), pushed>>))

\* Parser.mapLiteral(): its loop
mapLoop(P, entries) ==
  LET Q == peek(P)
      key == invoke("expression", <<Q>>)
      colon == consume(key.P, "colon", "Expect ':' after map key.")
      value == invoke("expression", <<ignoreLine(colon.P)>>)
      pushed == Append(entries, MapEntry(key.node, value.node))
      m == match(ignoreLine(value.P), "comma")
  IN IF Q.current.type = "rightBrace" THEN Parsed(entries, Q)
     ELSE Eager(key, Eager(value, IF ~m.ok THEN Parsed(pushed, m.P)
                                  ELSE invoke("mapLoop", <<ignoreLine(m.P), pushed>>)))

\* Parser.superCall()
superCall(P) ==
  LET m == match(P, "dot")
      name == consume(m.P, "name", "Expect method name after 'super.'.")
      f == invoke("finishCall", <<IF m.ok THEN name.P ELSE m.P>>)
  IN Eager(f, Parsed(SuperExpr(IF m.ok THEN name.token ELSE Nil, f.args, f.blockArgument),
                     f.P))

\* Parser.stringInterpolation()
interpolationLoop(P, strings, expressions) ==
  LET m == match(P, "interpolation")
      e == invoke("expression", <<ignoreLine(m.P)>>)
      closing == consume(m.P, "string", "Expect end of string interpolation.")
  IN IF m.ok
       THEN Eager(e, invoke("interpolationLoop", <<ignoreLine(e.P), Append(strings, m.P.previous),
                                       Append(expressions, e.node)>>))
       ELSE Parsed(InterpolationExpr(Append(strings, closing.token), expressions), closing.P)

\* Parser.statement(): the loop of a block statement
blockLoop(P, statements) ==
  LET Q == peek(P)
      d == invoke("definition", <<Q>>)
      pushed == Append(statements, d.node)
  IN IF Q.current.type \in {"rightBrace", "eof"} THEN Parsed(statements, Q)
     ELSE Eager(d, IF peekType(d.P) = "rightBrace" THEN Parsed(pushed, peek(d.P))
                   ELSE invoke("blockLoop", <<consumeLine(d.P, "Expect newline after statement."),
                                  pushed>>))

\* Parser.statement()
statement(P) ==
  LET Q == peek(P)
      type == Q.current.type
      A == advance(Q)
  IN CASE type = "break" -> Parsed(BreakStmt(A.previous), A)
       [] type = "continue" -> Parsed(ContinueStmt(A.previous), A)
       [] type = "if" ->
            LET open == consume(A, "leftParen", "Expect '(' after 'if'.")
                condition == invoke("expression", <<ignoreLine(open.P)>>)
                close == consume(condition.P, "rightParen", "Expect ')' after if condition.")
                thenBranch == invoke("statement", <<close.P>>)
                m == match(thenBranch.P, "else")
                elseBranch == invoke("statement", <<m.P>>)
            IN Eager(condition, Eager(thenBranch,
                 IF m.ok THEN Eager(elseBranch,
                                    Parsed(IfStmt(condition.node, thenBranch.node,
                                                  elseBranch.node), elseBranch.P))
                         ELSE Parsed(IfStmt(condition.node, thenBranch.node, Nil), m.P)))
       [] type = "for" ->
            LET open == consume(A, "leftParen", "Expect '(' after 'for'.")
                variable == consume(open.P, "name", "Expect for loop variable name.")
                typeAnnotation == parseTypeAnnotation(variable.P)
                in == consume(typeAnnotation.P, "in", "Expect 'in' after loop variable.")
                iterator == invoke("expression", <<ignoreLine(in.P)>>)
                close == consume(iterator.P, "rightParen",
                                 "Expect ')' after loop expression.")
                body == invoke("statement", <<close.P>>)
            IN Eager(iterator, Eager(body,
                 Parsed(ForStmt(variable.token, typeAnnotation.node, iterator.node,
                                body.node), body.P)))
       [] type = "while" ->
            LET open == consume(A, "leftParen", "Expect '(' after 'while'.")
                condition == invoke("expression", <<ignoreLine(open.P)>>)
                close == consume(condition.P, "rightParen",
                                 "Expect ')' after while condition.")
                body == invoke("statement", <<close.P>>)
            IN Eager(condition, Eager(body,
                 Parsed(WhileStmt(condition.node, body.node), body.P)))
       [] type = "return" ->
            LET B == peek(A)
                value == invoke("expression", <<B>>)
            IN IF B.current.type \notin {"line", "eof"}
                 THEN Eager(value, Parsed(ReturnStmt(A.previous, value.node), value.P))
                 ELSE Parsed(ReturnStmt(A.previous, Nil), B)
       [] type = "leftBrace" ->
            LET statements == invoke("blockLoop", <<ignoreLine(A), <<>>>>)
                close == consume(statements.P, "rightBrace", "Expect '}' after block.")
            IN Eager(statements, Parsed(BlockStmt(statements.node), close.P))
       [] OTHER -> invoke("expression", <<Q>>)

\* Parser.definition(): the loop over the variables of an import
RECURSIVE importLoop(_, _)
importLoop(P, variables) ==
  LET name == consume(P, "name", "Expect imported variable name.")
      as == match(name.P, "as")
      alias == consume(as.P, "name", "Expect alias name after 'as'.")
      pushed == Append(variables, IF as.ok THEN alias.token ELSE name.token)
      m == match(IF as.ok THEN alias.P ELSE as.P, "comma")
  IN IF ~m.ok THEN Parsed(pushed, m.P) ELSE importLoop(ignoreLine(m.P), pushed)

\* Parser.definition()
definition(P) ==
  LET Q == peek(P)
      type == Q.current.type
      A == advance(Q)
  IN CASE type = "class" -> invoke("finishClass", <<A, Nil>>)
       [] type = "foreign" ->
            invoke("finishClass", <<consume(A, "class", "Expect 'class' after 'foreign'.").P, A.previous>>)
       [] type = "import" ->
            LET path == consume(ignoreLine(A), "string", "Expect import path.")
                m == match(path.P, "for")
                variables == importLoop(ignoreLine(m.P), <<>>)
            IN IF m.ok THEN Parsed(ImportStmt(path.token, ListOf(variables.node)), variables.P)
                       ELSE Parsed(ImportStmt(path.token, NullList), m.P)
       [] type = "var" ->
            LET name == consume(A, "name", "Expect variable name.")
                typeAnnotation == parseTypeAnnotation(name.P)
                m == match(typeAnnotation.P, "equal")
                initializer == invoke("expression", <<ignoreLine(m.P)>>)
            IN IF m.ok THEN Eager(initializer,
                                  Parsed(VarStmt(name.token, typeAnnotation.node,
                                                 initializer.node), initializer.P))
                       ELSE Parsed(VarStmt(name.token, typeAnnotation.node, Nil), m.P)
       [] OTHER -> invoke("statement", <<Q>>)

\* A finishClass that asks for no newline between two methods
RECURSIVE classLoop_noNewline(_, _)
classLoop_noNewline(P, methods) ==
  LET m1 == match(P, "rightBrace")
      made == invoke("method", <<m1.P>>)
      pushed == Append(methods, made.node)
      m2 == match(made.P, "rightBrace")
  IN IF m1.ok \/ m1.P.current.type = "eof" THEN Parsed(methods, m1.P)
     ELSE Eager(made, IF m2.ok THEN Parsed(pushed, m2.P)
                      ELSE classLoop_noNewline(ignoreLine(m2.P), pushed))

\* Parser.finishClass(foreignKeyword): the loop over the methods
classLoop(P, methods) ==
  LET m1 == match(P, "rightBrace")
      made == invoke("method", <<m1.P>>)
      pushed == Append(methods, made.node)
      m2 == match(made.P, "rightBrace")
  IN IF m1.ok \/ m1.P.current.type = "eof" THEN Parsed(methods, m1.P)
     ELSE Eager(made,
                IF m2.ok THEN Parsed(pushed, m2.P)
                ELSE invoke("classLoop", <<consumeLine(m2.P, "Expect newline after definition in class."),
                               pushed>>))

\* Parser.finishClass(foreignKeyword)
finishClass(P, foreignKeyword) ==
  LET name == consume(P, "name", "Expect class name.")
      is == match(name.P, "is")
      superclass == consume(is.P, "name", "Expect name of superclass.")
      open == consume(IF is.ok THEN superclass.P ELSE is.P, "leftBrace",
                      "Expect '{' after class name.")
      methods == invoke("classLoop", <<ignoreLine(open.P), <<>>>>)
  IN Eager(methods,
           Parsed([ClassStmt(name.token, IF is.ok THEN superclass.token ELSE Nil,
                             methods.node)
                     EXCEPT !.foreignKeyword = foreignKeyword],
                  methods.P))

\* Parser.method(): the signature, which is a subscript, an operator or a name
methodSignature(P) ==
  LET bracket == match(P, "leftBracket")
      subscript == parameterList(bracket.P)
      rightBracket == consume(subscript.P, "rightBracket", "Expect ']' after parameters.")
      infix == matchAny(bracket.P, INFIX_OPERATORS)
      unary == matchAny(infix.P, {"bang", "tilde"})
      named == consume(unary.P, "name", "Expect method name.")
  IN IF bracket.ok
       THEN [parameters |-> ListOf(subscript.node), allow |-> FALSE, P |-> rightBracket.P]
     ELSE IF infix.ok THEN [parameters |-> NullList, allow |-> TRUE, P |-> infix.P]
     ELSE IF unary.ok THEN [parameters |-> NullList, allow |-> FALSE, P |-> unary.P]
     ELSE [parameters |-> NullList, allow |-> TRUE, P |-> named.P]

\* Parser.method(): the parameter list after the signature
methodParameterList(signature) ==
  LET paren == match(signature.P, "leftParen")
      empty == match(ignoreLine(IF signature.allow THEN paren.P
                                ELSE error(paren.P,
                                           "A parameter list is not allowed for this method.")),
                     "rightParen")
      listed == parameterList(empty.P)
      rightParen == consume(ignoreLine(listed.P), "rightParen",
                            "Expect ')' after parameters.")
  IN IF ~paren.ok THEN Parsed(signature.parameters, paren.P)
     ELSE IF empty.ok THEN Parsed(signature.parameters, empty.P)
     ELSE Parsed(ListOf(listed.node), rightParen.P)

\* Parser.method(): the setter, name=(value)
methodSetter(withList) ==
  LET equal == match(withList.P, "equal")
      setOpen == consume(equal.P, "leftParen", "Expect '(' after '=' in setter.")
      setList == parameterList(setOpen.P)
      setClose == consume(setList.P, "rightParen", "Expect ')' after setter parameter.")
  IN IF equal.ok THEN Parsed(ListOf(setList.node), setClose.P)
     ELSE Parsed(withList.node, equal.P)

\* Parser.method(): the return type and the body, and the Method returned
methodBody(foreign, static, construct, name, parameters) ==
  LET returnType == parseReturnTypeAnnotation(parameters.P)
      open == consume(returnType.P, "leftBrace", "Expect '{' before method body.")
      body == invoke("finishBody", <<open.P, parameters.node>>)
  IN Eager(IF foreign.ok THEN returnType ELSE body,
           Parsed([Method(IF static.ok THEN static.P.previous ELSE Nil,
                          IF construct.ok THEN construct.P.previous ELSE Nil,
                          name, parameters.node, returnType.node,
                          IF foreign.ok THEN Nil ELSE body.node)
                     EXCEPT !.foreignKeyword = IF foreign.ok THEN foreign.P.previous ELSE Nil],
                  IF foreign.ok THEN returnType.P ELSE body.P))

\* Parser.method()
method(P) ==
  LET foreign == match(P, "foreign")
      static == match(foreign.P, "static")
      construct == match(static.P, "construct")
      signature == methodSignature(construct.P)
  IN methodBody(foreign, static, construct, signature.P.previous,
                methodSetter(methodParameterList(signature)))

\* this.<method>(<arguments>): the call of one method of the Parser by another
invoke(kind, args) ==
  CASE kind = "expression" -> expression(args[1])
    [] kind = "assignment" -> assignment(args[1])
    [] kind = "conditional" -> conditional(args[1])
    [] kind = "parseInfix" -> parseInfix(args[1], args[2])
    [] kind = "infixLoop" -> infixLoop(args[1], args[2], args[3])
    [] kind = "infixUp" -> infixUp(args[1], args[2], args[3])
    [] kind = "prefix" -> prefix(args[1])
    [] kind = "call" -> call(args[1])
    [] kind = "callLoop" -> callLoop(args[1], args[2])
    [] kind = "methodCall" -> methodCall(args[1], args[2], args[3])
    [] kind = "finishCall" -> finishCall(args[1])
    [] kind = "argumentLoop" -> argumentLoop(args[1], args[2])
    [] kind = "finishBody" -> finishBody(args[1], args[2])
    [] kind = "bodyLoop" -> bodyLoop(args[1], args[2])
    [] kind = "primary" -> primary(args[1])
    [] kind = "grouping" -> grouping(args[1])
    [] kind = "listLoop" -> listLoop(args[1], args[2])
    [] kind = "mapLoop" -> mapLoop(args[1], args[2])
    [] kind = "superCall" -> superCall(args[1])
    [] kind = "interpolationLoop" -> interpolationLoop(args[1], args[2], args[3])
    [] kind = "statement" -> statement(args[1])
    [] kind = "blockLoop" -> blockLoop(args[1], args[2])
    [] kind = "definition" -> definition(args[1])
    [] kind = "finishClass" -> finishClass(args[1], args[2])
    [] kind = "classLoop" -> classLoop(args[1], args[2])
    [] kind = "method" -> method(args[1])

\* Parser.parseModule(): its loop
RECURSIVE moduleLoop(_, _)

\* Parser.parseModule(): its loop after one definition
moduleNext(statements, d) ==
  Eager(d, IF peekType(d.P) = "eof" THEN Parsed(Append(statements, d.node), peek(d.P))
           ELSE moduleLoop(consumeLine(d.P, "Expect newline."),
                           Append(statements, d.node)))

moduleLoop(P, statements) ==
  IF peekType(P) = "eof" THEN Parsed(statements, peek(P))
  ELSE moduleNext(statements, invoke("definition", <<peek(P)>>))

\* Parser.parseModule(): after its loop
moduleEnd(statements) ==
  Eager(statements, Parsed(Module(statements.node),
                           consume(statements.P, "eof", "Expect end of input.").P))

\* Parser.parseModule()
parseModule(P) == moduleEnd(moduleLoop(ignoreLine(P), <<>>))

-----------------------------------------------------------------------------
(* The sources the Parser is run on, written as the texts the Lexer cuts   *)
(* them into, one space between two texts.  A text " " is one more space:  *)
(* it takes the room of a newline and gives no token.                      *)

\* Lexer.readToken(): the type of the token with a given text
TypeOf(text) ==
  CASE text = "\n" -> "line"
    [] text = "." -> "dot"
    [] text = "," -> "comma"
    [] text = "(" -> "leftParen"
    [] text = ")" -> "rightParen"
    [] text = "[" -> "leftBracket"
    [] text = "]" -> "rightBracket"
    [] text = "{" -> "leftBrace"
    [] text = "}" -> "rightBrace"
    [] text = ":" -> "colon"
    [] text = "=" -> "equal"
    [] text = "->" -> "arrow"
    [] text = "?" -> "question"
    [] text = "+" -> "plus"
    [] text \in {"class", "var", "if", "for", "in", "static", "construct", "return"} -> text
    [] text \in {"1", "2", "42"} -> "number"
    [] text = "\"hi %(" -> "interpolation"
    [] text = ")\"" -> "string"
    [] OTHER -> "name"

\* Lexer.readToken(), called until the source ends: the tokens before Eof
RECURSIVE Scan(_, _)
Scan(texts, at) ==
  IF texts = <<>> THEN <<>>
  ELSE IF Head(texts) = " " THEN Scan(Tail(texts), at + 2)
  ELSE <<Token(TypeOf(Head(texts)), Head(texts), at)>>
         \o Scan(Tail(texts), at + TextLength(Head(texts)) + 1)

\* SourceFile.count
RECURSIVE Count(_)
Count(texts) ==
  IF texts = <<>> THEN 0
  ELSE TextLength(Head(texts)) + (IF Len(texts) > 1 THEN 1 ELSE 0) + Count(Tail(texts))

MaxTokens == 4       \* texts of a source drawn from the alphabet

Alphabet == {"a", ".", "\n", "=", ")"}

RECURSIVE TextsOf(_)
TextsOf(n) ==
  IF n = 0 THEN {<<>>}
  ELSE {Append(ts, t) : ts \in TextsOf(n - 1), t \in Alphabet}

AnyTexts == UNION {TextsOf(n) : n \in 0..MaxTokens}

\* The same after an opening parenthesis, and as the condition of an if statement
Grouped == {<<"(">> \o ts : ts \in AnyTexts}
Conditions == {<<"if", "(">> \o ts : ts \in AnyTexts}

\* class Foo { construct new() {} static bar() { 1 } }
\* Foo.baz()
ClassOnOneLine ==
  <<"class", "Foo", "{", "construct", "new", "(", ")", "{", "}",
    "static", "bar", "(", ")", "{", "1", "}", "}", "\n", "Foo", ".", "baz", "(", ")">>

\* class Foo {
\*   construct new() {}
\*   static bar() { 1 }
\* }
\* Foo.baz()
ClassOnLines ==
  <<"class", "Foo", "{", "\n", "construct", "new", "(", ")", "{", "}", "\n",
    "static", "bar", "(", ")", "{", "1", "}", "\n", "}", "\n", "Foo", ".", "baz", "(", ")">>

\* class Foo {
\*   bar=(x) { x }
\* }
SetterSignatures ==
  {<<"class", "Foo", "{", "\n", name, "=", "(", "x", ")", "{", "x", "}", "\n", "}">> :
     name \in {"bar", "baz"}}

\* a.b, written with the dot after no, one or two newlines, and the same with
\* another token in the place of the dot
Adjacent == <<" ", " ">>
Gaps == {Adjacent, <<"\n", " ">>, <<" ", "\n">>, <<"\n", "\n">>}
Receivers == {<<"a">>, <<"Foo">>, <<"1">>, <<"x", "(", ")">>, <<"a", ".", "bar">>}
Links == {<<"bar">>, <<"baz", "(", ")">>}
Followers == {<<"a">>, <<"1">>, <<"(", "a", ")">>, <<"[", "1", "]">>}
Chain(r, g, m) == r \o g \o <<".">> \o m
BrokenChain(r, g, f) == r \o g \o f
Chains == {Chain(r, g, m) : r \in Receivers, g \in Gaps, m \in Links}
BrokenChains == {BrokenChain(r, g, f) : r \in Receivers, g \in Gaps \ {Adjacent},
                                        f \in Followers}

\* The places the parser is said to skip newlines at: the texts up to and
\* including the place, and the texts after it
IgnoreLinePlaces ==
  {[place |-> "leftBracket", before |-> <<"[">>, after |-> <<"1", "]">>],
   [place |-> "leftParen", before |-> <<"(">>, after |-> <<"1", ")">>],
   [place |-> "arguments", before |-> <<"f", "(">>, after |-> <<"1", ")">>],
   [place |-> "leftBrace", before |-> <<"a", "=", "{">>, after |-> <<"1", ":", "2", "}">>],
   [place |-> "comma", before |-> <<"[", "1", ",">>, after |-> <<"2", "]">>],
   [place |-> "operator", before |-> <<"1", "+">>, after |-> <<"2">>],
   [place |-> "question", before |-> <<"x", "?">>, after |-> <<"1", ":", "2">>],
   [place |-> "colon", before |-> <<"x", "?", "1", ":">>, after |-> <<"2">>],
   [place |-> "dot", before |-> <<"a", ".">>, after |-> <<"bar">>],
   [place |-> "initializer", before |-> <<"var", "x", "=">>, after |-> <<"42">>],
   [place |-> "assignment", before |-> <<"x", "=">>, after |-> <<"42">>],
   [place |-> "arrow", before |-> <<"class", "Foo", "{", "bar", "(", ")", "->">>,
    after |-> <<"Num", "{", "1", "}", "}">>]}

OnOneLine(c) == c.before \o <<" ">> \o c.after
OnTwoLines(c) == c.before \o <<"\n">> \o c.after

\* var x: = 42
VarWithoutType == <<"var", "x", ":", "=", "42">>

ParserInputs ==
  AnyTexts \cup Grouped \cup Conditions \cup {ClassOnOneLine, ClassOnLines, VarWithoutType} \cup SetterSignatures
    \cup Chains \cup BrokenChains
    \cup {OnOneLine(c) : c \in IgnoreLinePlaces} \cup {OnTwoLines(c) : c \in IgnoreLinePlaces}

-----------------------------------------------------------------------------
(* new Parser(new Lexer(source)), then parseModule() *)

InitParser ==
  /\ lexer = Nil
  /\ parser = Nil
  /\ pc = "new"
  /\ source \in ParserInputs
  /\ module = <<>>
  /\ parserDiagnostics = <<>>
  /\ parseOnlyResult = Nil
  /\ diagnostics = <<>>
  /\ scopes = <<ModuleScope>>
  /\ forwardReferences = <<>>
  /\ hasBareImport = FALSE
  /\ env = EmptyEnvironment
  /\ currentReturnType = NoType
  /\ currentClassName = NoType
  /\ classRegistry = {}
  /\ work = <<>>
  /\ sourceFile = Nil
  /\ last = Visited("new", Nil, Nil)

\* new Parser(lexer): the constructor reads the first token
Parser_new ==
  /\ pc = "new"
  /\ parser' = NewParser(Scan(source, 0))
  /\ pc' = "parse"
  /\ last' = Visited("Parser", source, Nil)
  /\ UNCHANGED <<lexer, source, sourceFile, module, parserDiagnostics, parseOnlyResult, diagnostics,
                 scopes, forwardReferences, hasBareImport, env, currentReturnType,
                 currentClassName, classRegistry, work>>

\* parser.parseModule()
Parser_parseModule ==
  /\ pc = "parse"
  /\ \E parsed \in {parseModule(parser)} :
       /\ module' = parsed.node.statements
       /\ parser' = parsed.P
       /\ parserDiagnostics' = parsed.P.diagnostics
  /\ pc' = "parsed"
  /\ last' = Visited("Parser.parseModule", source, parser)
  /\ UNCHANGED <<lexer, source, sourceFile, parseOnlyResult, diagnostics, scopes, forwardReferences,
                 hasBareImport, env, currentReturnType, currentClassName, classRegistry,
                 work>>

NextParser ==
  \/ Parser_new
  \/ Parser_parseModule

SpecParser == InitParser /\ [][NextParser]_vars

-----------------------------------------------------------------------------
(* The sources the model analyzes, each given as what Parser.parseModule   *)
(* builds from it.  A top-level statement starts on a line of its own, at  *)
(* offset b; the tokens carry the offsets they have in the text.           *)

\* A bare name:  x
Name(text, at) == CallExpr(Nil, Tok(text, at), NullList, Nil)

\* C.m  or  C.m()
StaticCall(C, m, arguments, at) ==
  CallExpr(Name(C, at), Tok(m, at + TextLength(C) + 1), arguments, Nil)

\* The literals, one of each kind:  1  "hello"  true  null  [1]  {}  "hi %(1)"
Literals(at) ==
  {NumExpr(Tok("1", at)), StringExpr(Tok("\"hello\"", at)), BoolExpr(Tok("true", at)),
   NullExpr(Tok("null", at)),
   ListExpr(Tok("[", at), <<NumExpr(Tok("1", at + 1))>>, Tok("]", at + 2)),
   MapExpr(Tok("{", at), <<>>, Tok("}", at + 1)),
   InterpolationExpr(<<Tok("\"hi %(", at), Tok(")\"", at + 7)>>,
                     <<NumExpr(Tok("1", at + 6))>>)}

\* Initializers that are no literal:  Foo.new()  1 + 1
NonLiterals(at) ==
  {StaticCall("Foo", "new", ListOf(<<>>), at),
   InfixExpr(NumExpr(Tok("1", at)), Tok("+", at + 2), NumExpr(Tok("1", at + 4)))}

\* var x   var x = e   var x: T   var x: T = e
VarDecl(name, T, e, b) ==
  VarStmt(Tok(name, b + 4),
          IF T = NoType THEN Nil ELSE TypeAnnotation(Tok(T, b + 7)),
          e)

\* The offset of e in  var x = e  and in  var x: T = e
InitializerAt(T, b) == IF T = NoType THEN b + 8 ELSE b + 10 + TextLength(T)

\* import "m"
BareImport(b) == ImportStmt(Tok("\"m\"", b + 7), NullList)

\* import "m" for Helper
ImportHelper(b) == ImportStmt(Tok("\"m\"", b + 7), ListOf(<<Tok("Helper", b + 15)>>))

\* class Foo { bar() { n } }
ClassUsing(n, b) ==
  ClassStmt(Tok("Foo", b + 6), Nil,
            <<Method(Nil, Nil, Tok("bar", b + 12), NullList, Nil,
                     Body(NullList, Name(n, b + 20), NullList))>>)

\* for (x in [1]) s   and   for (x: T in [1]) s
ForIn(T, body, b) ==
  LET at == IF T = NoType THEN b + 10 ELSE b + 12 + TextLength(T)
  IN ForStmt(Tok("x", b + 5),
             IF T = NoType THEN Nil ELSE TypeAnnotation(Tok(T, b + 8)),
             ListExpr(Tok("[", at), <<NumExpr(Tok("1", at + 1))>>, Tok("]", at + 2)),
             body)
ForBodyAt(T, b) == IF T = NoType THEN b + 15 ELSE b + 17 + TextLength(T)

\* The statements the Resolver's rules are exercised with
ResolvePool(b) ==
  {BareImport(b), ImportHelper(b),
   VarDecl("x", NoType, Nil, b),
   VarDecl("x", NoType, StaticCall("Helper", "new", ListOf(<<>>), b + 8), b),
   VarDecl("Baz", NoType, Nil, b),
   VarDecl("System", NoType, Nil, b),
   Name("x", b),
   BlockStmt(<<VarStmt(Tok("x", b + 6), Nil, Nil)>>),
   ClassUsing("baz", b), ClassUsing("Baz", b),
   ForIn(NoType, Name("x", ForBodyAt(NoType, b)), b)}

RECURSIVE Modules(_, _)
Modules(n, line) ==
  IF n = 0 THEN {<<>>}
  ELSE {<<s>> \o rest : s \in ResolvePool((line - 1) * LineWidth),
                        rest \in Modules(n - 1, line + 1)}

ResolverPrograms == UNION {Modules(n, 1) : n \in 1..MaxStmts}

\* The module the TypeChecker's rules are exercised in:
\*   import "m" for Helper
\*   class Foo is Bar {
\*     construct new() {}
\*     static bar() { 1 }
\*     baz() -> Num {
\*       return 1
\*     }
\*   }
\*   class Bar { qux() { 1 } }
Prelude ==
  <<ImportHelper(0),
    ClassStmt(Tok("Foo", LineWidth + 6), Tok("Bar", LineWidth + 13),
      <<Method(Nil, Tok("construct", LineWidth + 21), Tok("new", LineWidth + 31), NullList,
               Nil, Body(NullList, Nil, ListOf(<<>>))),
        Method(Tok("static", LineWidth + 42), Nil, Tok("bar", LineWidth + 49), NullList,
               Nil, Body(NullList, NumExpr(Tok("1", LineWidth + 57)), NullList)),
        Method(Nil, Nil, Tok("baz", LineWidth + 63), NullList,
               TypeAnnotation(Tok("Num", LineWidth + 72)),
               Body(NullList, Nil,
                    ListOf(<<ReturnStmt(Tok("return", LineWidth + 82),
                                        NumExpr(Tok("1", LineWidth + 89)))>>)))>>),
    ClassStmt(Tok("Bar", 2 * LineWidth + 6), Nil,
      <<Method(Nil, Nil, Tok("qux", 2 * LineWidth + 12), NullList, Nil,
               Body(NullList, NumExpr(Tok("1", 2 * LineWidth + 20)), NullList))>>)>>

\* The offsets of the two lines after the prelude
Line4 == 3 * LineWidth
Line5 == 4 * LineWidth

StaticReceivers == {"Foo", "Bar", "System", "String", "Helper"}
StaticMethods == {"new", "bar", "baz", "print", "foo", "attributes"}
InstanceMethods == {"abs", "count", "contains", "toString", "nonsense", "baz", "qux"}
Annotations == {NoType, "Num", "String", "Null", "Foo"}
Superclasses == {NoType, "Foo", "Helper", "String"}

\* C.m  and  C.m(1)
StaticCallPrograms ==
  UNION {{Prelude \o <<StaticCall(C, m, arguments, Line4)>> :
            arguments \in {NullList,
                           ListOf(<<NumExpr(Tok("1", Line4 + TextLength(C)
                                                       + TextLength(m) + 2))>>)}} :
           C \in StaticReceivers, m \in StaticMethods}

\* var x ...
VarDecls ==
  UNION {{VarDecl("x", T, e, Line4) :
            e \in {Nil} \cup Literals(InitializerAt(T, Line4))
                        \cup NonLiterals(InitializerAt(T, Line4))} : T \in Annotations}

\* var x ...  then  x.m
VarThenCallPrograms ==
  {Prelude \o <<v, CallExpr(Name("x", Line5), Tok(m, Line5 + 2), NullList, Nil)>> :
     v \in VarDecls, m \in InstanceMethods}

\* var x: T ...  then  x = e
VarThenAssignPrograms ==
  {Prelude \o <<v, AssignmentExpr(Name("x", Line5), Tok("=", Line5 + 2), e)>> :
     v \in {d \in VarDecls : d.initializer = Nil \/ d.initializer.kind = "NumExpr"},
     e \in Literals(Line5 + 4) \cup NonLiterals(Line5 + 4)}

\* 1.m  "hello".m  ...  and  this.m  outside any class
LiteralCallPrograms ==
  {Prelude \o <<CallExpr(r, Tok(m, exprSpan(r).start + exprSpan(r).length + 1),
                         NullList, Nil)>> :
     r \in {l \in Literals(Line4) : l.kind # "InterpolationExpr"}
             \cup {ThisExpr(Tok("this", Line4))},
     m \in InstanceMethods}

\* class Baz { run() { this.m } }   and   class Baz is S { run() { this.m } }
ThisCallPrograms ==
  {LET at == IF S = NoType THEN Line4 + 12 ELSE Line4 + 16 + TextLength(S)
   IN Prelude \o
        <<ClassStmt(Tok("Baz", Line4 + 6),
                    IF S = NoType THEN Nil ELSE Tok(S, Line4 + 13),
                    <<Method(Nil, Nil, Tok("run", at), NullList, Nil,
                             Body(NullList,
                                  CallExpr(ThisExpr(Tok("this", at + 8)), Tok(m, at + 13),
                                           NullList, Nil),
                                  NullList))>>)>> :
     S \in Superclasses, m \in InstanceMethods}

\* for (x in [1]) x.m   and   for (x: T in [1]) x.m
ForCallPrograms ==
  {Prelude \o
     <<ForIn(T, CallExpr(Name("x", ForBodyAt(T, Line4)), Tok(m, ForBodyAt(T, Line4) + 2),
                         NullList, Nil), Line4)>> :
     T \in {NoType, "Num", "String"}, m \in InstanceMethods}

\* x = e
AssignTo(e, at) == AssignmentExpr(Name("x", at), Tok("=", at + 2), e)

\* The ways x gets an annotation (or none) other than by a var
AssignContexts == {"parameter", "blockParameter", "for", "left"}

\* (x)  and  (x: T)
ParameterX(T, at) ==
  ListOf(<<Parameter(Tok("x", at),
                     IF T = NoType THEN Nil ELSE TypeAnnotation(Tok(T, at + 3)))>>)

\* The offset of the assignment's x in each context
AssignAt(ctx, T) ==
  LET n == IF T = NoType THEN 0 ELSE TextLength(T) + 2
  IN CASE ctx = "parameter" -> Line4 + 21 + n
       [] ctx = "blockParameter" -> Line4 + 17 + n
       [] ctx = "for" -> ForBodyAt(T, Line4)
       [] ctx = "left" -> Line5 + 20

\*   class Baz { run(x: T) { x = e } }
\*   Helper.each {|x: T| x = e }
\*   for (x: T in [1]) x = e
\*   class Baz { run(x: T) {} }  then  class Qux { run() { x = e } }
AssignIn(ctx, T, a) ==
  CASE ctx = "parameter" ->
         <<ClassStmt(Tok("Baz", Line4 + 6), Nil,
                     <<Method(Nil, Nil, Tok("run", Line4 + 12), ParameterX(T, Line4 + 16),
                              Nil, Body(ParameterX(T, Line4 + 16), a, NullList))>>)>>
    [] ctx = "blockParameter" ->
         <<CallExpr(Name("Helper", Line4), Tok("each", Line4 + 7), NullList,
                    Body(ParameterX(T, Line4 + 14), a, NullList))>>
    [] ctx = "for" -> <<ForIn(T, a, Line4)>>
    [] ctx = "left" ->
         <<ClassStmt(Tok("Baz", Line4 + 6), Nil,
                     <<Method(Nil, Nil, Tok("run", Line4 + 12), ParameterX(T, Line4 + 16),
                              Nil, Body(ParameterX(T, Line4 + 16), Nil, ListOf(<<>>)))>>),
           ClassStmt(Tok("Qux", Line5 + 6), Nil,
                     <<Method(Nil, Nil, Tok("run", Line5 + 12), NullList,
                              Nil, Body(NullList, a, NullList))>>)>>

\* Each assignment program with the annotation D that is in force at  x = e
AssignCases ==
  UNION {{[module |-> Prelude \o AssignIn(ctx, T, AssignTo(e, AssignAt(ctx, T))),
           D |-> IF ctx = "left" THEN NoType ELSE T, e |-> e] :
            e \in Literals(AssignAt(ctx, T) + 4) \cup NonLiterals(AssignAt(ctx, T) + 4)} :
           ctx \in AssignContexts, T \in Annotations}
    \cup {[module |-> m,
           D |-> IF m[4].typeAnnotation = Nil THEN NoType
                 ELSE m[4].typeAnnotation.name.text,
           e |-> m[5].value] : m \in VarThenAssignPrograms}

AssignPrograms == {c.module : c \in AssignCases}

\* The places a return value is written at
ReturnContexts == {"return", "expression", "blockInMethod", "moduleReturn", "moduleBlock"}

\* -> R
ReturnType(R, at) == IF R = NoType THEN Nil ELSE TypeAnnotation(Tok(R, at))

\* The offset of the return keyword, or of the body's expression, in each context
ReturnAt(ctx, R) ==
  LET n == IF R = NoType THEN 0 ELSE TextLength(R) + 4
  IN CASE ctx = "return" -> Line4 + 26 + n
       [] ctx = "expression" -> Line4 + 20 + n
       [] ctx = "blockInMethod" -> Line4 + 34 + n
       [] ctx = "moduleReturn" -> Line5
       [] ctx = "moduleBlock" -> Line5 + 14

\* class Baz { run() -> R { body } }, body given
MethodReturning(R, body) ==
  ClassStmt(Tok("Baz", Line4 + 6), Nil,
            <<Method(Nil, Nil, Tok("run", Line4 + 12), NullList,
                     ReturnType(R, Line4 + 21), body)>>)

\*   class Baz {
\*     run() -> R {
\*       return e
\*     }
\*   }
\*   class Baz { run() -> R { e } }
\*   class Baz { run() -> R { Helper.each { e } } }
\*   class Baz { run() -> Num { 1 } }  then  return e
\*   class Baz { run() -> Num { 1 } }  then  Helper.each { e }
\* with e = Nil for a return without value
ReturnIn(ctx, R, e) ==
  LET at == ReturnAt(ctx, R)
  IN CASE ctx = "return" ->
            <<ClassStmt(Tok("Baz", Line4 + 6), Nil,
                        <<Method(Nil, Nil, Tok("run", Line4 + 14), NullList,
                                 ReturnType(R, Line4 + 23),
                                 Body(NullList, Nil,
                                      ListOf(<<ReturnStmt(Tok("return", at), e)>>)))>>)>>
       [] ctx = "expression" -> <<MethodReturning(R, Body(NullList, e, NullList))>>
       [] ctx = "blockInMethod" ->
            <<MethodReturning(R,
                Body(NullList,
                     CallExpr(Name("Helper", at - 14), Tok("each", at - 7), NullList,
                              Body(NullList, e, NullList)),
                     NullList))>>
       [] ctx = "moduleReturn" ->
            <<MethodReturning("Num",
                              Body(NullList, NumExpr(Tok("1", Line4 + 27)), NullList)),
              ReturnStmt(Tok("return", at), e)>>
       [] ctx = "moduleBlock" ->
            <<MethodReturning("Num",
                              Body(NullList, NumExpr(Tok("1", Line4 + 27)), NullList)),
              CallExpr(Name("Helper", at - 14), Tok("each", at - 7), NullList,
                       Body(NullList, e, NullList))>>

\* Each return program with the return type R that is in force at the value, and
\* the token or expression a warning about it is placed on
ReturnCases ==
  UNION {UNION {{[module |-> Prelude \o ReturnIn(ctx, R, e),
                  R |-> IF ctx \in {"moduleReturn", "moduleBlock"} THEN NoType ELSE R,
                  e |-> e,
                  on |-> IF e = Nil THEN Tok("return", ReturnAt(ctx, R)) ELSE e] :
                   e \in LET at == IF ctx \in {"return", "moduleReturn"}
                                     THEN ReturnAt(ctx, R) + 7 ELSE ReturnAt(ctx, R)
                         IN Literals(at) \cup NonLiterals(at)
                              \cup (IF ctx \in {"return", "moduleReturn"}
                                      THEN {Nil} ELSE {})} :
                  R \in IF ctx \in {"moduleReturn", "moduleBlock"}
                          THEN {"Num"} ELSE Annotations} :
           ctx \in ReturnContexts}

ReturnPrograms == {c.module : c \in ReturnCases}

\* x = "hello"   and   x.nonsense
ScopedUses(at) ==
  {AssignTo(StringExpr(Tok("\"hello\"", at + 4)), at),
   CallExpr(Name("x", at), Tok("nonsense", at + 2), NullList, Nil)}

\*   var x = 1 + 1
\*   { var x: Num = 1 }
\*   use of x
AfterBlock(use) ==
  Prelude \o
    <<VarDecl("x", NoType, CHOOSE e \in NonLiterals(Line4 + 8) : e.kind = "InfixExpr",
              Line4),
      BlockStmt(<<VarDecl("x", "Num", NumExpr(Tok("1", InitializerAt("Num", Line5 + 2))),
                          Line5 + 2)>>),
      use>>

\*   var x: Num = 1
\*   {
\*     var x = 1 + 1
\*     use of x
\*   }
Shadowed(use) ==
  Prelude \o
    <<VarDecl("x", "Num", NumExpr(Tok("1", InitializerAt("Num", Line4))), Line4),
      BlockStmt(<<VarDecl("x", NoType,
                          CHOOSE e \in NonLiterals(Line5 + 10) : e.kind = "InfixExpr",
                          Line5 + 2),
                  use>>)>>

\* Each program with its use of x, and the expression a warning about the use is
\* placed on
ScopedCases ==
  UNION {{[module |-> IF place = "afterBlock" THEN AfterBlock(use) ELSE Shadowed(use),
           use |-> use,
           on |-> IF use.kind = "AssignmentExpr" THEN use.value ELSE use] :
            use \in ScopedUses(IF place = "afterBlock" THEN Line5 + LineWidth
                                                       ELSE Line5 + 20)} :
           place \in {"afterBlock", "shadowed"}}

ScopedPrograms == {c.module : c \in ScopedCases}

CheckerPrograms ==
  StaticCallPrograms \cup VarThenCallPrograms \cup VarThenAssignPrograms
    \cup LiteralCallPrograms \cup ThisCallPrograms \cup ForCallPrograms
    \cup AssignPrograms \cup ReturnPrograms \cup ScopedPrograms

\* What the parser rejects, when it rejects: a name left on the line of the last statement
Stray(statements) == Tok("y", (Len(statements) - 1) * LineWidth + LineWidth - 2)

\* What parseModule makes of a source given by its texts: the Module's statements,
\* and the spans Parser.error was called at
ParsedAs(parsed) ==
  [module |-> parsed.node.statements,
   errors |-> [i \in 1..Len(parsed.P.diagnostics) |-> parsed.P.diagnostics[i].span]]

ParsedSource(texts) == ParsedAs(parseModule(NewParser(Scan(texts, 0))))

ParsedSources == {ParsedSource(texts) : texts \in {ClassOnOneLine, ClassOnLines}}

Sources ==
  {[module |-> m, errors |-> <<>>] : m \in ResolverPrograms \cup CheckerPrograms}
    \cup {[module |-> m, errors |-> [i \in 1..MaxParseErrors |-> Stray(m)]] :
            m \in ResolverPrograms \cup StaticCallPrograms}
    \cup ParsedSources

-----------------------------------------------------------------------------
(* analyze(source), then parseOnly(source) *)

Init ==
  /\ lexer = Nil
  /\ parser = Nil
  /\ pc = "parse"
  /\ source \in Sources
  /\ module = <<>>
  /\ parserDiagnostics = <<>>
  /\ parseOnlyResult = Nil
  /\ diagnostics = <<>>
  /\ scopes = <<ModuleScope>>
  /\ forwardReferences = <<>>
  /\ hasBareImport = FALSE
  /\ env = EmptyEnvironment
  /\ currentReturnType = NoType
  /\ currentClassName = NoType
  /\ classRegistry = {}
  /\ work = <<>>
  /\ sourceFile = Nil
  /\ last = Visited("new", Nil, Nil)

Next ==
  \/ ParserError
  \/ ParseModule
  \/ ParseOnly
  \/ Resolver_visitVarStmt
  \/ Resolver_visitCallExpr
  \/ Resolver_visitBody
  \/ Resolver_visitBlockStmt
  \/ Resolver_visitClassStmt
  \/ Resolver_visitForStmt
  \/ Resolver_visitImportStmt
  \/ Resolver_visitInherited
  \/ Resolver_scopeEnd
  \/ Resolver_visitModule
  \/ TypeChecker_check
  \/ TypeChecker_visitClassStmt
  \/ TypeChecker_visitVarStmt
  \/ TypeChecker_visitForStmt
  \/ TypeChecker_visitAssignmentExpr
  \/ TypeChecker_visitCallExpr
  \/ TypeChecker_visitMethod
  \/ TypeChecker_visitBody
  \/ TypeChecker_visitReturnStmt
  \/ TypeChecker_visitInherited
  \/ TypeChecker_tail
  \/ AnalyzeReturn

Spec == Init /\ [][Next]_vars

-----------------------------------------------------------------------------
(* A Scope driven by a client of its own: Scope is exported, and the       *)
(* Resolver never calls declare with a class marker innermost.  The client *)
(* calls the methods in any order, closing what it opened with the method  *)
(* that matches.                                                           *)

ScopeTokens == {Tok("x", 0), Tok("x", 10), Tok("Foo", 0), Tok("System", 0)}

ScopeStep(op, name, X) ==
  /\ pc = "scope"
  /\ scopes' = X.scopes
  /\ forwardReferences' = X.forwardReferences
  /\ diagnostics' = X.diagnostics
  /\ last' = Visited(op, name, ScopeFields)
  /\ UNCHANGED <<lexer, parser, pc, source, sourceFile, module, parserDiagnostics, parseOnlyResult, hasBareImport,
                 env, currentReturnType, currentClassName, classRegistry, work>>

Recorded == Len(diagnostics) + Len(forwardReferences)

Scope_declare ==
  \E name \in ScopeTokens :
    /\ Recorded < MaxRecorded
    /\ ScopeStep("Scope.declare", name, declare(ScopeFields, name))

Scope_resolve ==
  \E name \in ScopeTokens :
    /\ Recorded < MaxRecorded
    /\ ScopeStep("Scope.resolve", name, resolve(ScopeFields, name))

Scope_begin ==
  /\ Len(scopes) <= MaxScopeDepth
  /\ ScopeStep("Scope.begin", Nil, begin(ScopeFields))

Scope_end ==
  /\ Len(scopes) > 1
  /\ ~scopes[Len(scopes)].class
  /\ ScopeStep("Scope.end", Nil, end(ScopeFields))

Scope_beginClass ==
  /\ Len(scopes) <= MaxScopeDepth
  /\ ScopeStep("Scope.beginClass", Nil, beginClass(ScopeFields))

Scope_endClass ==
  /\ Len(scopes) > 1
  /\ scopes[Len(scopes)].class
  /\ ScopeStep("Scope.endClass", Nil, endClass(ScopeFields))

Scope_checkForwardReferences ==
  /\ Len(scopes) = 1
  /\ Len(diagnostics) < MaxRecorded
  /\ ScopeStep("Scope.checkForwardReferences", Nil, checkForwardReferences(ScopeFields))

InitScope ==
  /\ lexer = Nil
  /\ parser = Nil
  /\ pc = "scope"
  /\ source = [module |-> <<>>, errors |-> <<>>]
  /\ module = <<>>
  /\ parserDiagnostics = <<>>
  /\ parseOnlyResult = Nil
  /\ diagnostics = <<>>
  /\ scopes = <<ModuleScope>>
  /\ forwardReferences = <<>>
  /\ hasBareImport = FALSE
  /\ env = EmptyEnvironment
  /\ currentReturnType = NoType
  /\ currentClassName = NoType
  /\ classRegistry = {}
  /\ work = <<>>
  /\ sourceFile = Nil
  /\ last = Visited("new", Nil, Nil)

NextScope ==
  \/ Scope_declare
  \/ Scope_resolve
  \/ Scope_begin
  \/ Scope_end
  \/ Scope_beginClass
  \/ Scope_endClass
  \/ Scope_checkForwardReferences

SpecScope == InitScope /\ [][NextScope]_vars

-----------------------------------------------------------------------------
(* Properties *)

HasError(ds) == \E i \in 1..Len(ds) : ds[i].severity = "error"
HasWarning(ds) == \E i \in 1..Len(ds) : ds[i].severity = "warning"
IsPrefix(a, b) == Len(a) <= Len(b) /\ SubSeq(b, 1, Len(a)) = a
Appended(a, b) == SubSeq(b, Len(a) + 1, Len(b))
AllOf(ds, P(_)) == \A i \in 1..Len(ds) : P(ds[i])

\* C1: the type checker is silent after errors.  Once the parser or the resolver
\* has left an error in the list, no step of TypeChecker.check changes the list;
\* what the parser and the resolver append has severity error, what the type
\* checker appends has severity warning; so the list analyze() returns never holds
\* both an error and a warning.
C1_CheckerSilentAfterErrors ==
  /\ [][pc = "check" /\ HasError(diagnostics) => diagnostics' = diagnostics]_vars
  /\ [][IsPrefix(diagnostics, diagnostics')
          => AllOf(Appended(diagnostics, diagnostics'),
                   LAMBDA d : d.severity = IF pc = "check" THEN "warning" ELSE "error")]_vars
  /\ [](pc = "done" => ~(HasError(diagnostics) /\ HasWarning(diagnostics)))

\* C1 happens:  System.foo y  has been analyzed; the parser rejected y, and
\* TypeChecker.check returned without the warning System.foo gets otherwise
C1_Witness ==
  /\ pc = "done"
  /\ last.op = "TypeChecker.check"
  /\ module = Prelude \o <<StaticCall("System", "foo", NullList, Line4)>>
  /\ HasError(last.pre.diagnostics)
  /\ diagnostics = last.pre.diagnostics

\* The diagnostics of the resolver and of the type checker, by their codes
ResolverCodes == {"duplicate-variable", "undefined-variable"}
CheckerCodes == {"type-mismatch", "unknown-method"}

\* C2: analyze(s).diagnostics is the parser's diagnostics, then the resolver's,
\* then the type checker's: every step leaves the list or appends to it, the
\* stages run in that order, each appends only its own diagnostics, and the list
\* starts with the parser's.  parseOnly(s).diagnostics is the parser's segment,
\* so a prefix of analyze(s).diagnostics.
C2_DiagnosticOrder ==
  /\ [][IsPrefix(diagnostics, diagnostics')]_vars
  /\ [][pc' # pc => <<pc, pc'>> \in {<<"parse", "resolve">>, <<"resolve", "check">>,
                                    <<"check", "done">>}]_vars
  /\ [][pc = "resolve" => AllOf(Appended(diagnostics, diagnostics'),
                                LAMBDA d : d.code \in ResolverCodes)]_vars
  /\ [][pc = "check" => AllOf(Appended(diagnostics, diagnostics'),
                              LAMBDA d : d.code \in CheckerCodes)]_vars
  /\ [](pc # "parse" => /\ IsPrefix(parserDiagnostics, diagnostics)
                        /\ AllOf(parserDiagnostics, LAMBDA d : d.code = "parse-error")
                        /\ AllOf(Appended(parserDiagnostics, diagnostics),
                                 LAMBDA d : d.code # "parse-error"))
  /\ [](parseOnlyResult # Nil => /\ parseOnlyResult.diagnostics = parserDiagnostics
                                 /\ IsPrefix(parseOnlyResult.diagnostics, diagnostics))

\* C2 happens: analyze() returned the parser's diagnostic followed by one the
\* resolver's traversal left and one its forward-reference check left, and
\* parseOnly() has returned too
C2_Witness ==
  /\ pc = "done"
  /\ parseOnlyResult # Nil
  /\ Len(parserDiagnostics) > 0
  /\ Len(diagnostics) >= Len(parserDiagnostics) + 2
  /\ Len(forwardReferences) > 0

\* The names a module declares at its top level
DeclaredByModule(statements) ==
  UNION {CASE statements[i].kind \in {"VarStmt", "ClassStmt"} -> {statements[i].name.text}
           [] statements[i].kind = "ImportStmt" ->
                {statements[i].variables.list[j].text :
                   j \in 1..Len(statements[i].variables.list)}
           [] OTHER -> {} : i \in 1..Len(statements)}

\* C3: when a module contains a bare import (here: starts with one), analyze()
\* reports no error for a reference to an uppercase-initial name the module never
\* declares, a reference at module top level included.
C3_BareImportSilencesUppercase ==
  (pc = "done" /\ source.errors = <<>> /\ Len(module) > 0 /\ module[1] = BareImport(0))
    => AllOf(diagnostics,
             LAMBDA d : ~(/\ d.severity = "error"
                          /\ d.code = "undefined-variable"
                          /\ startsUpper(d.mentions[1])
                          /\ d.mentions[1] \notin DeclaredByModule(module)))

\* The scopes of a stack that Scope.resolve reaches before any class marker
ReachedBeforeClass(scs) == {i \in 1..Len(scs) : \A j \in i..Len(scs) : ~scs[j].class}

\* C4: Scope.resolve(name) walks outward.  A map scope reached before any class
\* marker holds the name: no diagnostic.  The bottom is reached, no class marker
\* crossed, the name absent: exactly one undefined-variable at the name's span.  A
\* class marker is crossed: no diagnostic; a lowercase-initial name leaves nothing,
\* an uppercase-initial one resolves at module scope or is recorded as a forward
\* reference.
C4_Resolve ==
  last.op = "Scope.resolve" =>
    LET pre == last.pre
        name == last.arg
        found == \E i \in ReachedBeforeClass(pre.scopes) : ScopeHas(pre.scopes[i], name.text)
        crossed == \E j \in 1..Len(pre.scopes) : pre.scopes[j].class
    IN /\ scopes = pre.scopes
       /\ CASE found ->
                 diagnostics = pre.diagnostics /\ forwardReferences = pre.forwardReferences
            [] ~found /\ ~crossed ->
                 /\ diagnostics =
                      Append(pre.diagnostics,
                             Diagnostic("error", "undefined-variable", name.start,
                                        name.length, <<name.text>>))
                 /\ forwardReferences = pre.forwardReferences
            [] ~found /\ crossed ->
                 /\ diagnostics = pre.diagnostics
                 /\ forwardReferences =
                      IF name.text \in UpperNames /\ ~ScopeHas(pre.scopes[1], name.text)
                        THEN Append(pre.forwardReferences, name)
                        ELSE pre.forwardReferences

\* C4 happens: resolve("x") crossed a class marker, with a map scope above it and x
\* declared below it, and left nothing
C4_Witness ==
  /\ last.op = "Scope.resolve"
  /\ last.arg.text = "x"
  /\ Len(scopes) = 3
  /\ scopes[2].class
  /\ ~ScopeHas(scopes[3], "x")
  /\ ScopeHas(scopes[1], "x")
  /\ diagnostics = last.pre.diagnostics
  /\ forwardReferences = last.pre.forwardReferences

\* C5: Scope.declare(name).  The innermost scope is a map that holds the name
\* already (declared, or a built-in): exactly one duplicate-variable at the new
\* name's span, the scopes unchanged.  Otherwise, the innermost scope a map: the
\* name is bound there, whatever the outer scopes hold, without a diagnostic.  The
\* innermost element a class marker: nothing changes.
C5_Declare ==
  last.op = "Scope.declare" =>
    LET pre == last.pre
        name == last.arg
        top == Len(pre.scopes)
    IN /\ forwardReferences = pre.forwardReferences
       /\ CASE pre.scopes[top].class ->
                 scopes = pre.scopes /\ diagnostics = pre.diagnostics
            [] ~pre.scopes[top].class /\ ScopeHas(pre.scopes[top], name.text) ->
                 /\ scopes = pre.scopes
                 /\ diagnostics =
                      Append(pre.diagnostics,
                             Diagnostic("error", "duplicate-variable", name.start,
                                        name.length, <<name.text>>))
            [] OTHER ->
                 /\ diagnostics = pre.diagnostics
                 /\ Len(scopes) = top
                 /\ \A i \in 1..(top - 1) : scopes[i] = pre.scopes[i]
                 /\ scopes[top].map =
                      pre.scopes[top].map \cup {[name |-> name.text, entry |-> name]}

\* C5 happens: x was declared at offset 0 in an inner scope, declare met x again at
\* offset 10 there, reported it and left the first binding
C5_Witness ==
  /\ last.op = "Scope.declare"
  /\ last.arg = Tok("x", 10)
  /\ Len(scopes) > 1
  /\ ScopeHas(scopes[Len(scopes)], "x")
  /\ ScopeGet(scopes[Len(scopes)], "x") = Tok("x", 0)
  /\ Len(diagnostics) = Len(last.pre.diagnostics) + 1
  /\ diagnostics[Len(diagnostics)].code = "duplicate-variable"

\* C6: forward references.  An uppercase-initial name used inside a class body
\* while absent from module scope gets no diagnostic at the use.  When the module
\* has been traversed, and only if no bare import was seen, each recorded use whose
\* name is still absent from module scope gets exactly one undefined-variable, in
\* the order of the uses, and a name declared at module level by then gets none.
\* These come after every diagnostic of the traversal, and the resolver appends
\* nothing after them.
C6_ForwardReferences ==
  /\ [](last.op = "Resolver.visitCallExpr" /\ last.arg.receiver = Nil
          /\ last.arg.name.text \in UpperNames
          /\ (\E j \in 1..Len(last.pre.scopes) : last.pre.scopes[j].class)
          /\ ~ScopeHas(last.pre.scopes[1], last.arg.name.text)
        => /\ diagnostics = last.pre.diagnostics
           /\ forwardReferences = Append(last.pre.forwardReferences, last.arg.name))
  /\ [](last.op = "Resolver.visitModule"
        => LET added == Appended(last.pre.diagnostics, diagnostics)
               late == SelectSeq(forwardReferences,
                                 LAMBDA use : ~ScopeHas(scopes[1], use.text))
           IN /\ IsPrefix(last.pre.diagnostics, diagnostics)
              /\ hasBareImport => added = <<>>
              /\ ~hasBareImport =>
                   /\ Len(added) = Len(late)
                   /\ \A i \in 1..Len(late) :
                        added[i] = Diagnostic("error", "undefined-variable", late[i].start,
                                              late[i].length, <<late[i].text>>))
  /\ [][(pc = "check" \/ pc = "done")
          => AllOf(Appended(diagnostics, diagnostics'),
                   LAMBDA d : d.code \notin ResolverCodes)]_vars

\* C6 happens:  x  then  class Foo { bar() { Baz } }  has been traversed; the
\* traversal left a diagnostic on x, and the use of Baz got its diagnostic after it
C6_Witness ==
  /\ last.op = "Resolver.visitModule"
  /\ ~hasBareImport
  /\ Len(forwardReferences) = 1
  /\ forwardReferences[1].text = "Baz"
  /\ Len(last.pre.diagnostics) = 1
  /\ Len(diagnostics) = 2
  /\ diagnostics[2].span = [start |-> forwardReferences[1].start, length |-> 3]

\* C7 as the specification states it: analysis of  class Foo { bar() { baz } }
\* alone yields exactly one undefined-variable, on baz; with  import "m"  before the
\* class it yields no diagnostic.
C7_LowercaseInClassBody ==
  pc = "done" /\ source.errors = <<>> =>
    /\ module = <<ClassUsing("baz", 0)>> =>
         /\ Len(diagnostics) = 1
         /\ diagnostics[1].code = "undefined-variable"
         /\ diagnostics[1].span = [start |-> 20, length |-> 3]
    /\ module = <<BareImport(0), ClassUsing("baz", LineWidth)>> => diagnostics = <<>>

\* C7, amended: analysis of  class Foo { bar() { baz } }  alone yields no
\* diagnostic, baz being a lowercase-initial name in a class body; with the
\* uppercase-initial Baz in its place it yields exactly one undefined-variable, on
\* Baz; with  import "m"  before the class it yields no diagnostic for either.
C7_Amended ==
  pc = "done" /\ source.errors = <<>> =>
    /\ module = <<ClassUsing("baz", 0)>> => diagnostics = <<>>
    /\ module = <<ClassUsing("Baz", 0)>> =>
         /\ Len(diagnostics) = 1
         /\ diagnostics[1].severity = "error"
         /\ diagnostics[1].code = "undefined-variable"
         /\ diagnostics[1].mentions = <<"Baz">>
         /\ diagnostics[1].span = [start |-> 20, length |-> 3]
    /\ module = <<BareImport(0), ClassUsing("baz", LineWidth)>> => diagnostics = <<>>
    /\ module = <<BareImport(0), ClassUsing("Baz", LineWidth)>> => diagnostics = <<>>

\* C7 happens:  class Foo { bar() { baz } }  alone has been analyzed, the resolver
\* having met baz inside the class body
C7_Witness ==
  /\ pc = "done"
  /\ source.errors = <<>>
  /\ module = <<ClassUsing("baz", 0)>>
  /\ diagnostics = <<>>
  /\ forwardReferences = <<>>

\* A bare name:  a call without receiver and without argument list
IsBareName(expr) == expr.kind = "CallExpr" /\ expr.receiver = Nil /\ ~expr.arguments.present

\* The top-level classes of a module, and the names a class defines as static
\* methods and constructors
UserClasses(statements) ==
  {statements[i] : i \in {j \in 1..Len(statements) : statements[j].kind = "ClassStmt"}}
StaticsOf(cls) ==
  {cls.methods[i].name.text :
     i \in {j \in 1..Len(cls.methods) :
              cls.methods[j].staticKeyword # Nil \/ cls.methods[j].constructKeyword # Nil}}

\* One unknown-method warning on the method name of a call, naming a class and the method
UnknownMethod(ds, className, site) ==
  /\ Len(ds) = 1
  /\ ds[1].severity = "warning"
  /\ ds[1].code = "unknown-method"
  /\ ds[1].span = [start |-> site.name.start, length |-> site.name.length]
  /\ ds[1].mentions[1] = className
  /\ ds[1].mentions[2] = site.name.text

\* C8: static method existence.  For a call C.m on the bare uppercase-initial name
\* C: m = attributes never warns; else, C a top-level class of the module, exactly
\* one unknown-method warning iff m is not among C's static methods and
\* constructors; else, C a core class with a static table, exactly one iff m is
\* not in the table; else none.
C8_StaticMethodExists ==
  (last.op = "TypeChecker.visitCallExpr" /\ last.arg.receiver # Nil
     /\ IsBareName(last.arg.receiver) /\ last.arg.receiver.name.text \in UpperNames)
    => LET site == last.arg
           C == site.receiver.name.text
           m == site.name.text
           added == Appended(last.pre.diagnostics, diagnostics)
           user == {cls \in UserClasses(module) : cls.name.text = C}
       IN /\ IsPrefix(last.pre.diagnostics, diagnostics)
          /\ CASE m = "attributes" -> added = <<>>
               [] m # "attributes" /\ user # {} ->
                    \A cls \in user :
                      IF m \in StaticsOf(cls) THEN added = <<>>
                                               ELSE UnknownMethod(added, C, site)
               [] m # "attributes" /\ user = {} /\ C \in CoreStaticClasses ->
                    IF m \in CORE_STATIC_METHODS[C] THEN added = <<>>
                                                    ELSE UnknownMethod(added, C, site)
               [] OTHER -> added = <<>>

\* C8 happens: Foo.baz was checked, baz being an instance method of the class Foo
\* of the module, and got its warning
C8_Witness ==
  /\ last.op = "TypeChecker.visitCallExpr"
  /\ last.arg = StaticCall("Foo", "baz", NullList, Line4)
  /\ Len(diagnostics) = 1
  /\ diagnostics[1].code = "unknown-method"
  /\ diagnostics[1].span = [start |-> Line4 + 4, length |-> 3]

\* The classes a receiver type's chain passes through: the type, then the
\* superclass of each class of the module, then Sequence above List, Map, Range and
\* String; nothing lies above a class that is not known
SuperOf(registry, c) ==
  IF RegistryHas(registry, c) THEN RegistryGet(registry, c).superclass
  ELSE IF c \in DOMAIN CORE_SUPERCLASS THEN CORE_SUPERCLASS[c]
  ELSE NoType

RECURSIVE ChainOf(_, _, _)
ChainOf(registry, c, seen) ==
  IF c = NoType \/ c \in seen THEN seen ELSE ChainOf(registry, SuperOf(registry, c), seen \cup {c})

InstanceMethodsOf(registry, c) ==
  IF RegistryHas(registry, c) THEN RegistryGet(registry, c).instanceMethods
  ELSE IF c \in CoreInstanceClasses THEN CORE_INSTANCE_METHODS[c]
  ELSE {}

KnownClass(registry, c) == RegistryHas(registry, c) \/ c \in CoreInstanceClasses

\* The literal kinds and their types
LiteralType(expr) ==
  CASE expr.kind = "NumExpr" -> "Num"
    [] expr.kind \in {"StringExpr", "InterpolationExpr"} -> "String"
    [] expr.kind = "BoolExpr" -> "Bool"
    [] expr.kind = "NullExpr" -> "Null"
    [] expr.kind = "ListExpr" -> "List"
    [] expr.kind = "MapExpr" -> "Map"
    [] OTHER -> NoType

\* C9: instance method existence.  For a call r.m with r this, a bare name (not
\* uppercase-initial: that is a static call) or a literal, and T the enclosing
\* class, the environment's type of the name, or the literal's type: no warning
\* when T is unknown or Null; none when m is an instance method of a known class
\* on T's chain or one of toString, type, is; otherwise exactly one unknown-method
\* warning naming T and m if a class on the chain is known, and none if none is.
C9_InstanceMethodExists ==
  (last.op = "TypeChecker.visitCallExpr" /\ last.arg.receiver # Nil
     /\ (\/ last.arg.receiver.kind = "ThisExpr"
         \/ IsBareName(last.arg.receiver) /\ last.arg.receiver.name.text \in LowerNames
         \/ LiteralType(last.arg.receiver) # NoType))
    => LET site == last.arg
           r == site.receiver
           m == site.name.text
           T == CASE r.kind = "ThisExpr" -> last.pre.currentClassName
                  [] r.kind = "CallExpr" -> envGet(last.pre.env, r.name.text)
                  [] OTHER -> LiteralType(r)
           chain == ChainOf(classRegistry, T, {})
           added == Appended(last.pre.diagnostics, diagnostics)
       IN /\ IsPrefix(last.pre.diagnostics, diagnostics)
          /\ CASE T \in {NoType, "Null"} -> added = <<>>
               [] T \notin {NoType, "Null"}
                    /\ (\/ \E c \in chain : m \in InstanceMethodsOf(classRegistry, c)
                        \/ m \in {"toString", "type", "is"}) -> added = <<>>
               [] OTHER ->
                    IF \E c \in chain : KnownClass(classRegistry, c)
                      THEN UnknownMethod(added, T, site)
                      ELSE added = <<>>

\* C9 happens: this.qux was checked inside  class Baz is Foo, Foo being a Bar and
\* qux a method of Bar, and got no warning
C9_Witness ==
  /\ last.op = "TypeChecker.visitCallExpr"
  /\ last.arg.receiver.kind = "ThisExpr"
  /\ last.arg.name.text = "qux"
  /\ last.pre.currentClassName = "Baz"
  /\ RegistryGet(classRegistry, "Baz").superclass = "Foo"
  /\ diagnostics = <<>>

\* C10: annotated var.  var x: T = e  gets exactly one type-mismatch warning,
\* mentioning T and the literal's type, iff e is a literal whose type differs from
\* T, placed on e (for a string, the bytes of the literal); a call or an infix
\* expression never warns.  var x: T  gets exactly one (no initializer) iff T is
\* not Null.  A var without annotation gets none.
C10_AnnotatedVar ==
  last.op = "TypeChecker.visitVarStmt" =>
    LET node == last.arg
        e == node.initializer
        added == Appended(last.pre.diagnostics, diagnostics)
        T == node.typeAnnotation.name.text
    IN /\ IsPrefix(last.pre.diagnostics, diagnostics)
       /\ CASE node.typeAnnotation = Nil -> added = <<>>
            [] node.typeAnnotation # Nil /\ e = Nil ->
                 IF T = "Null" THEN added = <<>>
                 ELSE /\ Len(added) = 1
                      /\ added[1].severity = "warning"
                      /\ added[1].code = "type-mismatch"
                      /\ added[1].mentions = <<node.name.text, T, "no initializer">>
            [] OTHER ->
                 IF LiteralType(e) # NoType /\ LiteralType(e) # T
                   THEN /\ Len(added) = 1
                        /\ added[1].severity = "warning"
                        /\ added[1].code = "type-mismatch"
                        /\ added[1].mentions = <<node.name.text, T, LiteralType(e)>>
                        /\ e.kind = "StringExpr" =>
                             added[1].span = [start |-> e.value.start,
                                              length |-> e.value.length]
                   ELSE added = <<>>

\* C10 happens:  var x: Num = "hello"  was checked and got one warning, on the
\* seven bytes of the string
C10_Witness ==
  /\ last.op = "TypeChecker.visitVarStmt"
  /\ last.arg.typeAnnotation # Nil
  /\ last.arg.typeAnnotation.name.text = "Num"
  /\ last.arg.initializer # Nil
  /\ last.arg.initializer.kind = "StringExpr"
  /\ Len(diagnostics) = 1
  /\ diagnostics[1].mentions = <<"x", "Num", "String">>
  /\ diagnostics[1].span = [start |-> Line4 + 13, length |-> 7]

\* The diagnostics placed on the bytes of expression e
PlacedOn(ds, e) == SelectSeq(ds, LAMBDA d : d.span = exprSpan(e))

\* C11: the assignment check uses declared types only.  For  x = e  with the
\* annotation D that is in force for x (from an annotated var, method parameter,
\* block parameter or for variable; none when x has no annotation, when its type
\* is only inferred from an initializer, or when the annotated declaration has been
\* left), analysis gives exactly one type-mismatch warning on e, naming x, D and
\* the literal's type, iff D exists and e is a literal of another type.
C11_AssignmentUsesDeclared ==
  (pc = "done" /\ last.op = "analyze") =>
    \A c \in AssignCases :
      module = c.module =>
        LET placed == PlacedOn(diagnostics, c.e)
        IN IF c.D # NoType /\ LiteralType(c.e) # NoType /\ LiteralType(c.e) # c.D
             THEN /\ Len(placed) = 1
                  /\ placed[1].severity = "warning"
                  /\ placed[1].code = "type-mismatch"
                  /\ placed[1].mentions = <<"x", c.D, LiteralType(c.e)>>
             ELSE placed = <<>>

\* C11 happens:  class Baz { run(x: Num) { x = "hello" } }  was analyzed and got the
\* one warning
C11_Witness ==
  /\ pc = "done" /\ last.op = "analyze"
  /\ \E c \in AssignCases :
       /\ module = c.module
       /\ c.D = "Num" /\ c.e.kind = "StringExpr"
       /\ module[4].kind = "ClassStmt"
       /\ Len(diagnostics) = 1
       /\ diagnostics[1].mentions = <<"x", "Num", "String">>

\* The diagnostics placed on a token or on an expression
PlacedAt(ds, on) ==
  SelectSeq(ds, LAMBDA d : d.span = IF "kind" \in DOMAIN on THEN exprSpan(on)
                                    ELSE [start |-> on.start, length |-> on.length])

\* C12: the return type check.  With R the return type annotation of the method
\* around the value (none in a method without annotation, and none at module
\* level, after a method with an annotation has been left):  return e  and a
\* single-expression body e get exactly one type-mismatch warning, naming R and
\* the literal's type, iff R exists and e is a literal of another type; a return
\* without value gets exactly one, on the keyword, iff R exists and is not Null.
C12_ReturnType ==
  (pc = "done" /\ last.op = "analyze") =>
    \A c \in ReturnCases :
      module = c.module =>
        LET placed == PlacedAt(diagnostics, c.on)
            found == IF c.e = Nil THEN "Null" ELSE LiteralType(c.e)
            expected == IF c.e = Nil THEN c.R \notin {NoType, "Null"}
                        ELSE c.R # NoType /\ found # NoType /\ found # c.R
        IN /\ IF expected
                THEN /\ Len(placed) = 1
                     /\ placed[1].severity = "warning"
                     /\ placed[1].code = "type-mismatch"
                     /\ placed[1].mentions = <<c.R, found>>
                ELSE placed = <<>>
           /\ Len(diagnostics) = Len(placed)

\* C12 happens: a return without value in  run() -> Num  was analyzed and got its
\* one warning, on the keyword
C12_Witness ==
  /\ pc = "done" /\ last.op = "analyze"
  /\ \E c \in ReturnCases :
       /\ module = c.module
       /\ c.R = "Num" /\ c.e = Nil
       /\ Len(diagnostics) = 1
       /\ diagnostics[1].mentions = <<"Num", "Null">>
       /\ diagnostics[1].span = [start |-> c.on.start, length |-> 6]

-----------------------------------------------------------------------------
(* The class of type checker scenario 3, from its source text *)

\* The token of a source with a given text, the n-th of them
RECURSIVE NthWith(_, _, _)
NthWith(tokens, text, n) ==
  IF Head(tokens).text = text
    THEN IF n = 1 THEN Head(tokens) ELSE NthWith(Tail(tokens), text, n - 1)
    ELSE NthWith(Tail(tokens), text, n)

\* C13 as stated: analyzing
\*   class Foo { construct new() {} static bar() { 1 } }
\*   Foo.baz()
\* yields exactly one warning, unknown-method, whose message mentions Foo and baz.
C13_ClassOnOneLine ==
  pc = "done" /\ source = ParsedSource(ClassOnOneLine) =>
    LET warnings == SelectSeq(diagnostics, LAMBDA d : d.severity = "warning")
    IN /\ Len(warnings) = 1
       /\ warnings[1].code = "unknown-method"
       /\ warnings[1].mentions[1] = "Foo"
       /\ warnings[1].mentions[2] = "baz"

\* C13, amended: with each method of the class on a line of its own,
\*   class Foo {
\*     construct new() {}
\*     static bar() { 1 }
\*   }
\*   Foo.baz()
\* analysis yields exactly one diagnostic, a warning unknown-method on baz whose
\* message mentions Foo and baz.  With the class on one line the parser reports
\* static, where it expects a newline after the method before it, and analysis
\* yields that parse-error and no warning.
C13_Amended ==
  pc = "done" =>
    /\ source = ParsedSource(ClassOnLines) =>
          LET baz == NthWith(Scan(ClassOnLines, 0), "baz", 1)
          IN /\ Len(diagnostics) = 1
             /\ diagnostics[1].severity = "warning"
             /\ diagnostics[1].code = "unknown-method"
             /\ diagnostics[1].mentions[1] = "Foo"
             /\ diagnostics[1].mentions[2] = "baz"
             /\ diagnostics[1].span = [start |-> baz.start, length |-> baz.length]
    /\ source = ParsedSource(ClassOnOneLine) =>
          diagnostics = <<parseError(NthWith(Scan(ClassOnOneLine, 0), "static", 1))>>

\* C13 happens: the class written on lines, then Foo.baz(), has been analyzed: the
\* parser found nothing to report, the registry holds Foo with its static methods
\* new and bar, and the checker has reported
C13_Witness ==
  /\ pc = "done"
  /\ last.op = "analyze"
  /\ source = ParsedSource(ClassOnLines)
  /\ source.errors = <<>>
  /\ Len(module) = 2
  /\ Len(diagnostics) = 1
  /\ \E c \in classRegistry : c.name = "Foo" /\ c.staticMethods = {"new", "bar"}

-----------------------------------------------------------------------------
(* The parser alone: what parseModule returns for a source *)

\* C14: a method declared with the setter signature name=(param) comes out of the
\* parser with isSetter set, and the registry's pre-scan of its class then holds
\* name= beside name among the class's methods.
C14_SetterRegistered ==
  pc = "parsed" /\ source \in SetterSignatures =>
    LET cls == module[1]
        setter == cls.methods[1]
        registered == RegistryGet(buildClassRegistry(module), "Foo")
    IN /\ isSetter(setter)
       /\ setter.name.text \in registered.instanceMethods
       /\ (setter.name.text \o "=") \in registered.instanceMethods

\* The tokens the Lexer returns for a source, up to and including the first Eof
Scanned(texts) == Scan(texts, 0) \o <<EofAfter(Scan(texts, 0))>>

\* The tokens among them that are neither newlines nor the end of the source
Words(tokens) == SelectSeq(tokens, LAMBDA t : t.type \notin {"line", "eof"})

\* C15: for any token sequence parseModule returns a Module; every diagnostic it
\* has appended is an error with code parse-error whose span is that of a token of
\* the source, the one the parser was at; and parsing has continued with the
\* tokens that follow: every token of the source other than a newline has been
\* taken by the parser, in the order of the source.
C15_ErrorsAndContinues ==
  pc = "parsed" =>
    /\ \A i \in 1..Len(parserDiagnostics) :
         /\ parserDiagnostics[i].severity = "error"
         /\ parserDiagnostics[i].code = "parse-error"
         /\ \E j \in 1..Len(Scanned(source)) :
              parserDiagnostics[i].span = [start |-> Scanned(source)[j].start,
                                           length |-> Scanned(source)[j].length]
    /\ Words(parser.taken) = Words(Scanned(source))

\* What parseModule returns for a source: the statements, and the diagnostics
ParseOf(texts) ==
  LET parsed == parseModule(NewParser(Scan(texts, 0)))
  IN [module |-> parsed.node.statements, diagnostics |-> parsed.P.diagnostics]

\* C16: a link .name written after one or two newlines gives the AST of the
\* adjacent form, a call of name on the receiver, and no diagnostic; when the
\* token after the newlines is not a dot the chain stops: the receiver is a
\* statement, what follows the newlines is the next statement, and nothing is
\* reported.
C16_ChainAcrossNewlines ==
  pc = "parsed" =>
    /\ \A r \in Receivers, g \in Gaps, m \in Links :
         source = Chain(r, g, m) =>
           /\ module = ParseOf(Chain(r, Adjacent, m)).module
           /\ Len(module) = 1
           /\ module[1].kind = "CallExpr"
           /\ module[1].name.text = Head(m)
           /\ module[1].receiver = ParseOf(r).module[1]
           /\ parserDiagnostics = <<>>
    /\ \A r \in Receivers, g \in Gaps \ {Adjacent}, f \in Followers :
         source = BrokenChain(r, g, f) =>
           /\ Len(module) = 2
           /\ module[1] = ParseOf(r).module[1]
           /\ module[2].kind = ParseOf(f).module[1].kind
           /\ module[2].kind = CASE Head(f) = "a" -> "CallExpr"
                                  [] Head(f) = "1" -> "NumExpr"
                                  [] Head(f) = "(" -> "GroupingExpr"
                                  [] Head(f) = "[" -> "ListExpr"
           /\ Words(parser.taken) = Words(Scanned(source))
           /\ parserDiagnostics = <<>>

\* C16 happens: a.bar() written with two newlines before the dot has been parsed,
\* the parser having taken the dot and the name after peekDotAfterNewline
C16_Witness ==
  /\ pc = "parsed"
  /\ source = Chain(<<"a">>, <<"\n", "\n">>, <<"baz", "(", ")">>)
  /\ Len(module) = 1
  /\ module[1].kind = "CallExpr"
  /\ module[1].name.text = "baz"
  /\ module[1].receiver.name.text = "a"
  /\ \E i \in 1..Len(parser.taken) : parser.taken[i].type = "dot"

\* C17: a newline directly after an opening bracket, a comma, a binary operator,
\* ?, :, a dot, = (of a var initializer and of an assignment) or -> is skipped:
\* the source parses to the AST of its form on one line, with no parse-error.
C17_IgnoreLinePlaces ==
  pc = "parsed" =>
    \A c \in IgnoreLinePlaces :
      source = OnTwoLines(c) =>
        /\ module = ParseOf(OnOneLine(c)).module
        /\ parserDiagnostics = <<>>

-----------------------------------------------------------------------------
(* The tokens an AST refers to *)

\* The fields of a node that ast.ts declares as Token, never null
TokenFields(node) ==
  IF "kind" \notin DOMAIN node
    THEN IF "typeAnnotation" \in DOMAIN node THEN {"name"} ELSE {}
  ELSE CASE node.kind \in {"NumExpr", "StringExpr", "BoolExpr", "NullExpr"} -> {"value"}
         [] node.kind \in {"ThisExpr", "BreakStmt", "ContinueStmt", "ReturnStmt"} -> {"keyword"}
         [] node.kind \in {"FieldExpr", "StaticFieldExpr", "CallExpr", "VarStmt", "ClassStmt",
                           "Method", "TypeAnnotation"} -> {"name"}
         [] node.kind = "ListExpr" -> {"leftBracket", "rightBracket"}
         [] node.kind = "SubscriptExpr" -> {"leftBracket", "rightBracket"}
         [] node.kind = "MapExpr" -> {"leftBrace", "rightBrace"}
         [] node.kind = "GroupingExpr" -> {"leftParen", "rightParen"}
         [] node.kind \in {"PrefixExpr", "InfixExpr"} -> {"operator"}
         [] node.kind = "AssignmentExpr" -> {"equal"}
         [] node.kind = "ConditionalExpr" -> {"question", "colon"}
         [] node.kind = "ImportStmt" -> {"path"}
         [] node.kind = "ForStmt" -> {"variable"}
         [] OTHER -> {}

\* The fields of a node that hold an array
ArrayFields(node) ==
  {"elements", "entries", "strings", "expressions", "methods", "list"}
    \cup (IF "kind" \in DOMAIN node /\ node.kind \in {"BlockStmt", "Module"}
            THEN {"statements"} ELSE {})
    \cup (IF "kind" \in DOMAIN node /\ node.kind = "SubscriptExpr"
            THEN {"arguments"} ELSE {})

\* Every value found where a node of the tree holds a token: the Token fields
\* themselves, whatever they hold, and the tokens of the nullable fields and of
\* the token arrays
RECURSIVE TokensOf(_)
TokensOf(node) ==
  IF "start" \in DOMAIN node THEN {node}
  ELSE LET fields == DOMAIN node \ {"kind", "present", "isSetter"}
           below(f) == IF f \in ArrayFields(node)
                         THEN UNION {TokensOf(node[f][i]) : i \in 1..Len(node[f])}
                       ELSE TokensOf(node[f])
       IN {node[f] : f \in TokenFields(node)}
            \cup UNION {below(f) : f \in fields \ TokenFields(node)}

\* C18: when parseModule has returned, every token the tree refers to is one of
\* the tokens the scanner produced for the source, and its span lies inside the
\* source; the placeholder of a missing expression included
C18_TokensAreScanned ==
  pc = "parsed" =>
    \A t \in TokensOf(Module(module)) :
      /\ \E j \in 1..Len(Scanned(source)) : t = Scanned(source)[j]
      /\ 0 <= t.start
      /\ t.start + t.length <= Count(source)

-----------------------------------------------------------------------------
(* The scanner: Lexer over the bytes of a SourceFile *)

\* The longest source the scanner is run on, in characters
MaxSource == 5

\* Two characters outside ASCII: U+00E9 and the byte order mark U+FEFF
NonAscii == {"U+00E9", "U+FEFF"}

\* new TextEncoder().encode(): the UTF-8 bytes of one character
Utf8(char) ==
  CASE char = "U+00E9" -> <<"0xC3", "0xA9">>
    [] char = "U+FEFF" -> <<"0xEF", "0xBB", "0xBF">>
    [] OTHER -> <<char>>

RECURSIVE Encode(_)
Encode(str) == IF str = <<>> THEN <<>> ELSE Utf8(Head(str)) \o Encode(Tail(str))

\* new SourceFile(path, source): the string, its bytes, and lines = null
SourceFile(str) == [str |-> str, bytes |-> Encode(str), lines |-> NullList]

\* SourceFile.count
count(file) == Len(file.bytes)

\* SourceFile.byteAt(index): undefined past the end
byteAt(file, index) == IF index < Len(file.bytes) THEN file.bytes[index + 1] ELSE "undefined"

\* SourceFile.substring(start, length): this.str.slice(start, start + length)
substring(file, start, length) ==
  LET to == IF start + length < Len(file.str) THEN start + length ELSE Len(file.str)
  IN SubSeq(file.str, start + 1, to)

\* chars.ts
Digits == {"0", "1", "2", "3", "4", "5", "6", "7", "8", "9"}
Letters ==
  {"a", "b", "c", "d", "e", "f", "g", "h", "i", "j", "k", "l", "m", "n", "o", "p", "q",
   "r", "s", "t", "u", "v", "w", "x", "y", "z",
   "A", "B", "C", "D", "E", "F", "G", "H", "I", "J", "K", "L", "M", "N", "O", "P", "Q",
   "R", "S", "T", "U", "V", "W", "X", "Y", "Z"}
HexDigits == Digits \cup {"a", "b", "c", "d", "e", "f", "A", "B", "C", "D", "E", "F"}
isAlpha(c) == c \in Letters \cup {"_"}
isDigit(c) == c \in Digits
isAlphaNumeric(c) == isAlpha(c) \/ isDigit(c)
isHexDigit(c) == c \in HexDigits
AlphaNumerics == Letters \cup {"_"} \cup Digits

\* KEYWORDS: the texts of the keywords and their token types
KEYWORDS ==
  {[text |-> <<"b", "r", "e", "a", "k">>, type |-> "break"],
   [text |-> <<"c", "l", "a", "s", "s">>, type |-> "class"],
   [text |-> <<"c", "o", "n", "s", "t", "r", "u", "c", "t">>, type |-> "construct"],
   [text |-> <<"e", "l", "s", "e">>, type |-> "else"],
   [text |-> <<"f", "a", "l", "s", "e">>, type |-> "false"],
   [text |-> <<"f", "o", "r">>, type |-> "for"],
   [text |-> <<"f", "o", "r", "e", "i", "g", "n">>, type |-> "foreign"],
   [text |-> <<"i", "f">>, type |-> "if"],
   [text |-> <<"i", "m", "p", "o", "r", "t">>, type |-> "import"],
   [text |-> <<"i", "n">>, type |-> "in"],
   [text |-> <<"i", "s">>, type |-> "is"],
   [text |-> <<"n", "u", "l", "l">>, type |-> "null"],
   [text |-> <<"r", "e", "t", "u", "r", "n">>, type |-> "return"],
   [text |-> <<"s", "t", "a", "t", "i", "c">>, type |-> "static"],
   [text |-> <<"s", "u", "p", "e", "r">>, type |-> "super"],
   [text |-> <<"t", "h", "i", "s">>, type |-> "this"],
   [text |-> <<"t", "r", "u", "e">>, type |-> "true"],
   [text |-> <<"v", "a", "r">>, type |-> "var"],
   [text |-> <<"w", "h", "i", "l", "e">>, type |-> "while"]}

\* PUNCTUATORS: the type of the byte alone, then pairs of a further byte and the
\* type of the longer punctuator
PUNCTUATORS(c) ==
  CASE c = "(" -> <<"leftParen">>
    [] c = ")" -> <<"rightParen">>
    [] c = "[" -> <<"leftBracket">>
    [] c = "]" -> <<"rightBracket">>
    [] c = "{" -> <<"leftBrace">>
    [] c = "}" -> <<"rightBrace">>
    [] c = ":" -> <<"colon">>
    [] c = "," -> <<"comma">>
    [] c = "*" -> <<"star">>
    [] c = "/" -> <<"slash">>
    [] c = "%" -> <<"percent">>
    [] c = "+" -> <<"plus">>
    [] c = "~" -> <<"tilde">>
    [] c = "^" -> <<"caret">>
    [] c = "?" -> <<"question">>
    [] c = "\n" -> <<"line">>
    [] c = "|" -> <<"pipe", "|", "pipePipe">>
    [] c = "&" -> <<"amp", "&", "ampAmp">>
    [] c = "!" -> <<"bang", "=", "bangEqual">>
    [] c = "=" -> <<"equal", "=", "equalEqual">>
    [] c = "." -> <<"dot", ".", "dotDot", ".", "dotDotDot">>
    [] OTHER -> <<>>

\* makeToken(source, type, start, length)
makeToken(file, type, start, length) ==
  [type |-> type, start |-> start, length |-> length, text |-> substring(file, start, length)]

\* new Lexer(source), before skipBomAndShebang: the fields as declared. opened is
\* not a field of the Lexer: it remembers, for every entry of interpolations, how
\* many tokens had been returned when the entry was pushed; returned is the list
\* of the tokens readToken has returned
LexerFields(file) ==
  [source |-> file, start |-> 0, current |-> 0, interpolations |-> <<>>,
   opened |-> <<>>, returned |-> <<>>]

\* What a scanning method leaves behind: the token it returns and the Lexer
Scanned1(token, L) == [token |-> token, L |-> L]

\* Lexer.isAtEnd
Lexer_isAtEnd(L) == L.current >= count(L.source)

\* Lexer.advance()
Lexer_advance(L) == [L EXCEPT !.current = @ + 1]

\* Lexer.peek(n): -1 past the end
Lexer_peek(L, n) ==
  IF L.current + n >= count(L.source) THEN "-1" ELSE byteAt(L.source, L.current + n)

\* Lexer.match(expected)
Lexer_match(L, expected) ==
  IF Lexer_isAtEnd(L) THEN [ok |-> FALSE, L |-> L]
  ELSE IF byteAt(L.source, L.current) # expected THEN [ok |-> FALSE, L |-> L]
  ELSE [ok |-> TRUE, L |-> Lexer_advance(L)]

\* while (this.matchFn(predicate)) {}: the bytes the predicate accepts are given
\* as a set
RECURSIVE Lexer_matchFn(_, _)
Lexer_matchFn(L, accepted) ==
  IF Lexer_isAtEnd(L) THEN L
  ELSE IF byteAt(L.source, L.current) \notin accepted THEN L
  ELSE Lexer_matchFn(Lexer_advance(L), accepted)

\* Lexer.token(type)
Lexer_token(L, type) ==
  Scanned1(makeToken(L.source, type, L.start, L.current - L.start), L)

\* The line comment loop of skipWhitespace
RECURSIVE lineComment(_)
lineComment(L) ==
  IF Lexer_peek(L, 0) # "\n" /\ ~Lexer_isAtEnd(L) THEN lineComment(Lexer_advance(L)) ELSE L

\* The block comment loop of skipWhitespace: atEnd tells that the source ended
\* inside the comment, where skipWhitespace returns
RECURSIVE blockComment(_, _)
blockComment(L, nesting) ==
  IF nesting <= 0 THEN [atEnd |-> FALSE, L |-> L]
  ELSE IF Lexer_isAtEnd(L) THEN [atEnd |-> TRUE, L |-> L]
  ELSE IF Lexer_peek(L, 0) = "/" /\ Lexer_peek(L, 1) = "*"
    THEN blockComment(Lexer_advance(Lexer_advance(L)), nesting + 1)
  ELSE IF Lexer_peek(L, 0) = "*" /\ Lexer_peek(L, 1) = "/"
    THEN blockComment(Lexer_advance(Lexer_advance(L)), nesting - 1)
  ELSE blockComment(Lexer_advance(L), nesting)

\* Lexer.skipWhitespace()
RECURSIVE Lexer_skipWhitespace(_)
Lexer_skipWhitespace(L) ==
  LET c == Lexer_peek(L, 0)
      comment == blockComment(Lexer_advance(Lexer_advance(L)), 1)
  IN IF c \in {"\t", "\r", " "} THEN Lexer_skipWhitespace(Lexer_advance(L))
     ELSE IF c = "/" /\ Lexer_peek(L, 1) = "/" THEN Lexer_skipWhitespace(lineComment(L))
     ELSE IF c = "/" /\ Lexer_peek(L, 1) = "*"
       THEN IF comment.atEnd THEN comment.L ELSE Lexer_skipWhitespace(comment.L)
     ELSE L

\* Lexer.readField()
Lexer_readField(L) ==
  LET static == Lexer_match(L, "_")
  IN Lexer_token(Lexer_matchFn(static.L, AlphaNumerics),
                 IF static.ok THEN "staticField" ELSE "field")

\* Lexer.readRawString()
RECURSIVE Lexer_readRawString(_)
Lexer_readRawString(L) ==
  IF L.current + 2 < count(L.source)
    THEN IF /\ byteAt(L.source, L.current) = "\""
            /\ byteAt(L.source, L.current + 1) = "\""
            /\ byteAt(L.source, L.current + 2) = "\""
           THEN Lexer_token(Lexer_advance(Lexer_advance(Lexer_advance(L))), "string")
         ELSE Lexer_readRawString(Lexer_advance(L))
  ELSE Lexer_token([L EXCEPT !.current = IF @ < count(L.source) THEN count(L.source) ELSE @],
                   "string")

\* The loop of readString, and the token it returns
RECURSIVE stringLoop(_)
stringLoop(L) ==
  IF L.current < count(L.source)
    THEN LET c == byteAt(L.source, L.current)
             A == Lexer_advance(L)
             skipped == IF ~Lexer_isAtEnd(A) THEN Lexer_advance(A) ELSE A
         IN IF c = "\\" THEN stringLoop(skipped)
            ELSE IF c = "%"
              THEN Lexer_token([skipped EXCEPT !.interpolations = Append(@, 1),
                                               !.opened = Append(@, Len(L.returned) + 1)],
                               "interpolation")
            ELSE IF c = "\"" THEN Lexer_token(A, "string")
            ELSE stringLoop(A)
  ELSE Lexer_token(L, "string")

\* Lexer.readString()
Lexer_readString(L) ==
  IF /\ L.current + 1 < count(L.source)
     /\ byteAt(L.source, L.current) = "\""
     /\ byteAt(L.source, L.current + 1) = "\""
    THEN Lexer_readRawString(Lexer_advance(Lexer_advance(L)))
  ELSE stringLoop(L)

\* Lexer.readHexNumber()
Lexer_readHexNumber(L) == Lexer_token(Lexer_matchFn(Lexer_advance(L), HexDigits), "number")

\* Lexer.readNumber()
Lexer_readNumber(L) ==
  LET whole == Lexer_matchFn(L, Digits)
      fraction == IF Lexer_peek(whole, 0) = "." /\ isDigit(Lexer_peek(whole, 1))
                    THEN Lexer_matchFn(Lexer_advance(whole), Digits)
                  ELSE whole
      e == Lexer_advance(fraction)
      sign == IF Lexer_peek(e, 0) \in {"+", "-"} THEN Lexer_advance(e) ELSE e
      exponent == IF Lexer_peek(fraction, 0) \in {"e", "E"}
                    THEN Lexer_matchFn(sign, Digits)
                  ELSE fraction
  IN Lexer_token(exponent, "number")

\* The loop of skipAttribute
RECURSIVE attributeLoop(_, _)
attributeLoop(L, parenDepth) ==
  IF Lexer_isAtEnd(L) THEN L
  ELSE LET ch == byteAt(L.source, L.current)
       IN IF ch = "\n" /\ parenDepth = 0 THEN L
          ELSE attributeLoop(Lexer_advance(L),
                             IF ch = "(" THEN parenDepth + 1
                             ELSE IF ch = ")" THEN parenDepth - 1
                             ELSE parenDepth)

\* Lexer.skipAttribute()
Lexer_skipAttribute(L) ==
  attributeLoop(IF ~Lexer_isAtEnd(L) /\ byteAt(L.source, L.current) = "!"
                  THEN Lexer_advance(L) ELSE L,
                0)

\* Lexer.readName()
Lexer_readName(L) ==
  LET N == Lexer_matchFn(L, AlphaNumerics)
      text == substring(N.source, N.start, N.current - N.start)
      keyword == {k \in KEYWORDS : k.text = text}
      type == IF keyword # {} THEN (CHOOSE k \in keyword : TRUE).type ELSE "name"
  IN Scanned1(makeToken(N.source, type, N.start, N.current - N.start), N)

\* The shebang loop of skipBomAndShebang
RECURSIVE shebangLoop(_)
shebangLoop(L) ==
  IF L.current < count(L.source) /\ byteAt(L.source, L.current) # "\n"
    THEN shebangLoop(Lexer_advance(L))
  ELSE L

\* Lexer.skipBomAndShebang(): a byte is compared with 0xfeff
Lexer_skipBomAndShebang(L) ==
  LET B == IF byteAt(L.source, 0) = "0xFEFF" THEN [L EXCEPT !.current = 1] ELSE L
  IN IF /\ B.current < count(B.source)
        /\ byteAt(B.source, B.current) = "#"
        /\ B.current + 1 < count(B.source)
        /\ byteAt(B.source, B.current + 1) = "!"
       THEN shebangLoop(B)
     ELSE B

\* new Lexer(source)
NewLexer(file) == Lexer_skipBomAndShebang(LexerFields(file))

\* The maximal munch loop of readToken
RECURSIVE punctuatorLoop(_, _, _, _)
punctuatorLoop(L, punctuator, type, i) ==
  IF i < Len(punctuator)
    THEN LET m == Lexer_match(L, punctuator[i + 1])
         IN IF ~m.ok THEN Lexer_token(L, type)
            ELSE punctuatorLoop(m.L, punctuator, punctuator[i + 2], i + 2)
  ELSE Lexer_token(L, type)

\* Lexer.readToken(), after the interpolation nesting has been handled
RECURSIVE Lexer_read(_)
afterNesting(L, c) ==
  LET arrow == Lexer_match(L, ">")
      less == Lexer_match(L, "<")
      greater == Lexer_match(L, ">")
      equal == Lexer_match(L, "=")
  IN IF c = "-" THEN Lexer_token(arrow.L, IF arrow.ok THEN "arrow" ELSE "minus")
     ELSE IF PUNCTUATORS(c) # <<>>
       THEN punctuatorLoop(L, PUNCTUATORS(c), PUNCTUATORS(c)[1], 1)
     ELSE IF c = "<"
       THEN IF less.ok THEN Lexer_token(less.L, "lessLess")
            ELSE IF equal.ok THEN Lexer_token(equal.L, "lessEqual")
            ELSE Lexer_token(L, "less")
     ELSE IF c = ">"
       THEN IF greater.ok THEN Lexer_token(greater.L, "greaterGreater")
            ELSE IF equal.ok THEN Lexer_token(equal.L, "greaterEqual")
            ELSE Lexer_token(L, "greater")
     ELSE IF c = "_" THEN Lexer_readField(L)
     ELSE IF c = "\"" THEN Lexer_readString(L)
     ELSE IF c = "0" /\ Lexer_peek(L, 0) = "x" THEN Lexer_readHexNumber(L)
     ELSE IF isDigit(c) THEN Lexer_readNumber(L)
     ELSE IF isAlpha(c) THEN Lexer_readName(L)
     ELSE IF c = "#" THEN Lexer_read(Lexer_skipAttribute(L))
     ELSE Lexer_token(L, "error")

\* Lexer.readToken() without its advance() over the byte it has read
Lexer_read_noAdvance(L) ==
  IF L.current >= count(L.source) THEN Lexer_token(L, "eof")
  ELSE LET W == Lexer_skipWhitespace(L)
           S == [W EXCEPT !.start = W.current]
       IN IF S.current >= count(S.source) THEN Lexer_token(S, "eof")
          ELSE afterNesting(S, byteAt(S.source, S.current))

\* Lexer.readToken()
Lexer_read(L) ==
  IF L.current >= count(L.source) THEN Lexer_token(L, "eof")
  ELSE LET W == Lexer_skipWhitespace(L)
           S == [W EXCEPT !.start = W.current]
           c == byteAt(S.source, S.current)
           A == Lexer_advance(S)
           top == Len(A.interpolations)
           more == [A EXCEPT !.interpolations[top] = @ + 1]
           less == [A EXCEPT !.interpolations[top] = @ - 1]
           popped == [A EXCEPT !.interpolations = SubSeq(@, 1, top - 1),
                               !.opened = SubSeq(@, 1, top - 1)]
       IN IF S.current >= count(S.source) THEN Lexer_token(S, "eof")
          ELSE IF top > 0 /\ c = "("  THEN afterNesting(more, c)
          ELSE IF top > 0 /\ c = ")"
            THEN IF less.interpolations[top] = 0 THEN Lexer_readString(popped)
                 ELSE afterNesting(less, c)
          ELSE afterNesting(A, c)

-----------------------------------------------------------------------------
(* The sources the scanner is run on *)

\* The characters of the enumerated sources
LexerAlphabet == {"a", "\"", "%", "(", ")", " "}

\* Every source of at most n characters over the alphabet
RECURSIVE SourcesOf(_)
SourcesOf(n) ==
  IF n = 0 THEN {<<>>}
  ELSE SourcesOf(n - 1)
         \cup {Append(str, c) : str \in {s \in SourcesOf(n - 1) : Len(s) = n - 1},
                                c \in LexerAlphabet}

\* "hello %(name)", the source of the interpolation test
HelloName == <<"\"", "h", "e", "l", "l", "o", " ", "%", "(", "n", "a", "m", "e", ")", "\"">>

\* Longer sources: interpolations that nest, follow each other or meet quotes,
\* comments, a shebang, attributes, numbers, fields, a raw string, the longer
\* punctuators, characters outside ASCII, a keyword
LexerSamples ==
  {HelloName,
   <<"\"", "%", "(", "(", "a", ")", ")", "\"">>,
   <<"\"", "%", "(", "a", ")", "\"", "\"", "\"">>,
   <<"\"", "%", "(", "a", ")", "%", "(", "a", ")", "\"">>,
   <<"\"", "%", "(", "\"", "%", "(", "a", ")", "\"", ")", "\"">>,
   <<"\"", "%", "(", "a", ")", "\\", "\"", "\"">>,
   <<"/", "*", "a", "/", "*", "a", "*", "/", "a", "*", "/", "a">>,
   <<"a", "/", "/", "a", "\n", "a">>,
   <<"#", "!", "a", "\n", "a">>,
   <<"#", "a", "(", "\n", ")", "\n", "a">>,
   <<"0", "x", "1", "F">>,
   <<"1", ".", "5", "e", "+", "2">>,
   <<"1", ".", ".", "2">>,
   <<"_", "a", " ", "_", "_", "a">>,
   <<"\"", "\"", "\"", "a", "\"", "\"", "\"">>,
   <<"a", "-", ">", "a">>,
   <<"a", "<", "=", "a", ">", ">", "a">>,
   <<"a", ".", ".", ".", "a">>,
   <<"U+00E9", " ", "a">>,
   <<"U+FEFF", "a">>,
   <<"U+FEFF", "#", "!", "a", "\n", "a">>,
   <<"v", "a", "r", " ", "a">>,
   <<"a", "\n">>,
   <<"a", "<", "<", "a", ">", "=", "a">>,
   <<"a", "|", "|", " ", "!", "a", "!", "=", "a", "&", "&", "a">>}

\* The longest source of numbers the scanner is run on, in characters
MaxNumber == 4

\* The characters of the enumerated sources of numbers
NumberAlphabet == {"0", "1", "x", ".", "e", "+"}

\* Every source of at most n characters over the alphabet of numbers
RECURSIVE NumberSources(_)
NumberSources(n) ==
  IF n = 0 THEN {<<>>}
  ELSE NumberSources(n - 1)
         \cup {Append(str, c) : str \in {s \in NumberSources(n - 1) : Len(s) = n - 1},
                                c \in NumberAlphabet}

LexerInputs == SourcesOf(MaxSource) \cup NumberSources(MaxNumber) \cup LexerSamples

-----------------------------------------------------------------------------
(* tokenize(source): new Lexer(new SourceFile(source)), then readToken() until Eof *)

InitLexer ==
  /\ lexer = Nil
  /\ parser = Nil
  /\ pc = "lexer"
  /\ source \in LexerInputs
  /\ module = <<>>
  /\ parserDiagnostics = <<>>
  /\ parseOnlyResult = Nil
  /\ diagnostics = <<>>
  /\ scopes = <<ModuleScope>>
  /\ forwardReferences = <<>>
  /\ hasBareImport = FALSE
  /\ env = EmptyEnvironment
  /\ currentReturnType = NoType
  /\ currentClassName = NoType
  /\ classRegistry = {}
  /\ work = <<>>
  /\ sourceFile = Nil
  /\ last = Visited("new", Nil, Nil)

\* new Lexer(file)
Lexer_new ==
  /\ pc = "lexer"
  /\ lexer' = NewLexer(SourceFile(source))
  /\ pc' = "scan"
  /\ last' = Visited("Lexer", source, Nil)
  /\ UNCHANGED <<parser, source, sourceFile, module, parserDiagnostics, parseOnlyResult, diagnostics,
                 scopes, forwardReferences, hasBareImport, env, currentReturnType,
                 currentClassName, classRegistry, work>>

\* lexer.readToken(): the loop of tokenize ends with the first Eof
Lexer_readToken ==
  /\ pc = "scan"
  /\ LET read == Lexer_read(lexer)
     IN /\ lexer' = [read.L EXCEPT !.returned = Append(@, read.token)]
        /\ pc' = IF read.token.type = "eof" THEN "scanned" ELSE "scan"
  /\ last' = Visited("Lexer.readToken", source, lexer)
  /\ UNCHANGED <<parser, source, sourceFile, module, parserDiagnostics, parseOnlyResult, diagnostics,
                 scopes, forwardReferences, hasBareImport, env, currentReturnType,
                 currentClassName, classRegistry, work>>

NextLexer == Lexer_new \/ Lexer_readToken

SpecLexer == InitLexer /\ [][NextLexer]_vars

-----------------------------------------------------------------------------
(* The tokens readToken returns, against the bytes of the source *)

\* C19: the tokens returned up to and including the first Eof tile the source:
\* the text of each is the bytes of the source at (start, length), each starts
\* where the one before it ended or later, and each lies inside the source, so
\* that no byte of the source is covered by two tokens
C19_SpansTile ==
  pc \in {"scan", "scanned"} =>
    LET tokens == lexer.returned
        bytes == lexer.source.bytes
    IN /\ \A i \in 1..Len(tokens) :
            /\ Encode(tokens[i].text)
                 = SubSeq(bytes, tokens[i].start + 1, tokens[i].start + tokens[i].length)
            /\ 0 <= tokens[i].start
            /\ tokens[i].start + tokens[i].length <= Len(bytes)
       /\ \A i \in 2..Len(tokens) :
            tokens[i].start >= tokens[i - 1].start + tokens[i - 1].length

\* The tokens of one type returned after the first `from` tokens
ParensSince(from, type) ==
  Cardinality({i \in from + 1 .. Len(lexer.returned) : lexer.returned[i].type = type})

\* The parentheses still open in the interpolations from the k-th entry upwards
RECURSIVE OpenFrom(_)
OpenFrom(k) ==
  IF k > Len(lexer.interpolations) THEN 0
  ELSE (lexer.interpolations[k] - 1) + OpenFrom(k + 1)

\* A String or Interpolation token that starts at a `)`: the token that closes
\* an interpolation
Closes(token) ==
  token.type \in {"string", "interpolation"} /\ byteAt(lexer.source, token.start) = ")"

\* C20: between readToken calls every entry of the interpolation stack is at
\* least 1 and counts the LeftParen tokens returned since its `%(` less the
\* RightParen tokens, so that a `)` closes the interpolation exactly when it
\* balances the `%(`; the token returned on closing is the one non-raw string
\* reading gives from that `)`; and "hello %(name)" gives Interpolation, Name,
\* String
C20_InterpolationCloses ==
  pc \in {"scan", "scanned"} =>
    /\ \A k \in 1..Len(lexer.interpolations) :
         /\ lexer.interpolations[k] >= 1
         /\ OpenFrom(k) = ParensSince(lexer.opened[k], "leftParen")
                            - ParensSince(lexer.opened[k], "rightParen")
    /\ \A i \in 1..Len(lexer.returned) :
         Closes(lexer.returned[i]) =>
           lexer.returned[i]
             = stringLoop([lexer EXCEPT !.start = lexer.returned[i].start,
                                        !.current = lexer.returned[i].start + 1]).token
    /\ (pc = "scanned" /\ source = HelloName) =>
         [i \in 1..Len(lexer.returned) |-> lexer.returned[i].type]
           = <<"interpolation", "name", "string", "eof">>

-----------------------------------------------------------------------------
(* Strings and interpolations *)

\* The bytes hold a % directly followed by a (
HasPercentParen(bytes) ==
  \E i \in 1..Len(bytes) - 1 : bytes[i] = "%" /\ bytes[i + 1] = "("

\* The source opens with """
OpensRaw(bytes) == Len(bytes) >= 3 /\ bytes[2] = "\"" /\ bytes[3] = "\""

\* C21: a token of kind Interpolation ends with the two bytes %( , and a source
\* that opens a non-raw string and holds no %( gives a first token of kind
\* String and leaves the interpolation stack empty
C21_InterpolationOpens ==
  pc \in {"scan", "scanned"} =>
    LET bytes == lexer.source.bytes
    IN /\ \A i \in 1..Len(lexer.returned) :
            lexer.returned[i].type = "interpolation" =>
              LET last1 == lexer.returned[i].start + lexer.returned[i].length
              IN /\ lexer.returned[i].length >= 2
                 /\ bytes[last1 - 1] = "%"
                 /\ bytes[last1] = "("
       /\ ( /\ Len(lexer.returned) = 1
            /\ bytes # <<>>
            /\ bytes[1] = "\""
            /\ ~OpensRaw(bytes)
            /\ ~HasPercentParen(bytes) )
            => /\ lexer.returned[1].type = "string"
               /\ lexer.interpolations = <<>>

-----------------------------------------------------------------------------
(* Numbers *)

\* Every character of text from position from to position to is in the set
AllIn(text, from, to, set) == \A i \in from..to : text[i] \in set

\* 0x[0-9a-fA-F]+
IsHexText(text) ==
  /\ Len(text) >= 3
  /\ text[1] = "0"
  /\ text[2] = "x"
  /\ AllIn(text, 3, Len(text), HexDigits)

\* [eE][+-]?digits, from position from to the end of the text
IsExponentText(text, from) ==
  /\ from <= Len(text)
  /\ text[from] \in {"e", "E"}
  /\ LET digits == IF from + 1 <= Len(text) /\ text[from + 1] \in {"+", "-"}
                     THEN from + 2 ELSE from + 1
     IN digits <= Len(text) /\ AllIn(text, digits, Len(text), Digits)

\* digits(.digits)?([eE][+-]?digits)?
IsDecimalText(text) ==
  \E whole \in 1..Len(text) :
    /\ AllIn(text, 1, whole, Digits)
    /\ \E fraction \in whole..Len(text) :
         /\ \/ fraction = whole
            \/ /\ fraction >= whole + 2
               /\ text[whole + 1] = "."
               /\ AllIn(text, whole + 2, fraction, Digits)
         /\ fraction = Len(text) \/ IsExponentText(text, fraction + 1)

\* The types of the tokens returned
ReturnedTypes == [i \in 1..Len(lexer.returned) |-> lexer.returned[i].type]

\* C22: the text of every Number token matches 0x[0-9a-fA-F]+ or
\* digits(.digits)?([eE][+-]?digits)?; 0x1F and 3.14 are one Number each, and
\* 1..2 is Number DotDot Number
C22_NumberTexts ==
  pc \in {"scan", "scanned"} =>
    /\ \A i \in 1..Len(lexer.returned) :
         lexer.returned[i].type = "number" =>
           IsHexText(lexer.returned[i].text) \/ IsDecimalText(lexer.returned[i].text)
    /\ (pc = "scanned" /\ source \in {<<"0", "x", "1", "F">>, <<"1", ".", "1">>}) =>
         ReturnedTypes = <<"number", "eof">>
    /\ (pc = "scanned" /\ source = <<"1", ".", ".", "2">>) =>
         ReturnedTypes = <<"number", "dotDot", "number", "eof">>

-----------------------------------------------------------------------------
(* The byte order mark *)

\* tokenize(source) of the lexer tests: readToken until the first Eof
RECURSIVE tokenizeFrom(_)
tokenizeFrom(L) ==
  LET next == Lexer_read(L)
  IN IF next.token.type = "eof" THEN <<next.token>>
     ELSE <<next.token>> \o tokenizeFrom(next.L)

tokenize(str) == tokenizeFrom(NewLexer(SourceFile(str)))

\* The type and the text of every token of a list
TypesAndTexts(tokens) ==
  [i \in 1..Len(tokens) |-> [type |-> tokens[i].type, text |-> tokens[i].text]]

\* C23: a source that starts with the byte order mark gives the tokens of the
\* same source without it, a shebang after the mark included, and no Error
\* token starts inside the bytes of the mark
C23_BomSkipped ==
  (pc = "scanned" /\ source # <<>> /\ Head(source) = "U+FEFF") =>
    /\ TypesAndTexts(lexer.returned) = TypesAndTexts(tokenize(Tail(source)))
    /\ \A i \in 1..Len(lexer.returned) :
         lexer.returned[i].type = "error" => lexer.returned[i].start >= Len(Utf8("U+FEFF"))

-----------------------------------------------------------------------------
(* SourceFile: lines and columns, as the reporter asks for them *)

\* The longest source the lines of which are asked for, in characters
MaxFile == 4

\* The loop of findLines: i + 1 is pushed for every line feed at i
RECURSIVE findLinesLoop(_, _, _)
findLinesLoop(bytes, i, table) ==
  IF i < Len(bytes)
    THEN findLinesLoop(bytes, i + 1,
                       IF bytes[i + 1] = "\n" THEN Append(table, i + 1) ELSE table)
  ELSE table

\* SourceFile.findLines(): the file it leaves, its table computed once
findLines(F) ==
  IF F.lines.present THEN F
  ELSE [F EXCEPT !.lines = ListOf(findLinesLoop(F.bytes, 0, <<0>>))]

\* The loop of columnAt
RECURSIVE columnLoop(_, _, _)
columnLoop(F, i, column) ==
  IF i >= 0
    THEN IF byteAt(F, i) = "\n" THEN column ELSE columnLoop(F, i - 1, column + 1)
  ELSE column

\* SourceFile.columnAt(offset)
columnAt(F, offset) == columnLoop(F, offset - 1, 1)

\* The loop of lineAt over the table
RECURSIVE lineLoop(_, _, _)
lineLoop(table, offset, i) ==
  IF i < Len(table)
    THEN IF offset < table[i + 1] THEN i ELSE lineLoop(table, offset, i + 1)
  ELSE Len(table)

\* A lineAt that counts the lines from 0
lineAt_fromZero(F, offset) == lineLoop(findLines(F).lines.list, offset, 0) - 1

\* SourceFile.lineAt(offset)
lineAt(F, offset) == lineLoop(findLines(F).lines.list, offset, 0)

\* A number, or what undefined - 1 gives
Number(n) == [number |-> n]
NaN == [nan |-> TRUE]

\* String.prototype.slice(start, end) for start >= 0; an end that is not a
\* number counts as 0
slice(str, start, to) ==
  LET upTo == IF to = NaN THEN 0
              ELSE IF to.number > Len(str) THEN Len(str) ELSE to.number
  IN IF upTo <= start THEN <<>> ELSE SubSeq(str, start + 1, upTo)

\* SourceFile.getLine(line): lines[line] is undefined for the last line, and
\* undefined - 1 is not a number
getLine(F, line) ==
  LET table == findLines(F).lines.list
      start == table[line]
      to == IF line < Len(table) THEN Number(table[line + 1] - 1) ELSE NaN
  IN slice(F.str, start, to)

\* What a method of SourceFile was asked and what it returned
Returned(op, arg, result) == [op |-> op, arg |-> arg, result |-> result]

\* The characters of the sources the reporter is given
FileAlphabet == {"a", "b", "\n", "U+00E9"}

\* Every source of at most n characters over that alphabet
RECURSIVE FileSources(_)
FileSources(n) ==
  IF n = 0 THEN {<<>>}
  ELSE FileSources(n - 1)
         \cup {Append(str, c) : str \in {s \in FileSources(n - 1) : Len(s) = n - 1},
                                c \in FileAlphabet}

\* var x: Num = "hi"
VarNumHi ==
  <<"v", "a", "r", " ", "x", ":", " ", "N", "u", "m", " ", "=", " ", "\"", "h", "i", "\"">>

FileInputs == FileSources(MaxFile) \cup {VarNumHi}

InitSource ==
  /\ lexer = Nil
  /\ parser = Nil
  /\ pc = "file"
  /\ source \in FileInputs
  /\ sourceFile = Nil
  /\ module = <<>>
  /\ parserDiagnostics = <<>>
  /\ parseOnlyResult = Nil
  /\ diagnostics = <<>>
  /\ scopes = <<ModuleScope>>
  /\ forwardReferences = <<>>
  /\ hasBareImport = FALSE
  /\ env = EmptyEnvironment
  /\ currentReturnType = NoType
  /\ currentClassName = NoType
  /\ classRegistry = {}
  /\ work = <<>>
  /\ last = Visited("new", Nil, Nil)

\* new SourceFile(path, source)
SourceFile_new ==
  /\ pc = "file"
  /\ sourceFile' = SourceFile(source)
  /\ pc' = "report"
  /\ last' = Visited("SourceFile", source, Nil)
  /\ UNCHANGED <<lexer, parser, source, module, parserDiagnostics, parseOnlyResult,
                 diagnostics, scopes, forwardReferences, hasBareImport, env,
                 currentReturnType, currentClassName, classRegistry, work>>

\* source.lineAt(offset), for an offset of the source or its end
SourceFile_lineAt ==
  /\ pc = "report"
  /\ \E offset \in 0..count(sourceFile) :
       last' = Returned("lineAt", offset, lineAt(sourceFile, offset))
  /\ sourceFile' = findLines(sourceFile)
  /\ UNCHANGED <<lexer, parser, pc, source, module, parserDiagnostics, parseOnlyResult,
                 diagnostics, scopes, forwardReferences, hasBareImport, env,
                 currentReturnType, currentClassName, classRegistry, work>>

\* source.columnAt(offset), for an offset of the source or its end
SourceFile_columnAt ==
  /\ pc = "report"
  /\ \E offset \in 0..count(sourceFile) :
       last' = Returned("columnAt", offset, columnAt(sourceFile, offset))
  /\ UNCHANGED <<lexer, parser, pc, source, sourceFile, module, parserDiagnostics,
                 parseOnlyResult, diagnostics, scopes, forwardReferences, hasBareImport,
                 env, currentReturnType, currentClassName, classRegistry, work>>

\* source.getLine(line), for a line of the source
SourceFile_getLine ==
  /\ pc = "report"
  /\ \E line \in 1..Len(findLines(sourceFile).lines.list) :
       last' = Returned("getLine", line, getLine(sourceFile, line))
  /\ sourceFile' = findLines(sourceFile)
  /\ UNCHANGED <<lexer, parser, pc, source, module, parserDiagnostics, parseOnlyResult,
                 diagnostics, scopes, forwardReferences, hasBareImport, env,
                 currentReturnType, currentClassName, classRegistry, work>>

NextSource ==
  \/ SourceFile_new
  \/ SourceFile_lineAt
  \/ SourceFile_columnAt
  \/ SourceFile_getLine

SpecSource == InitSource /\ [][NextSource]_vars

\* The line feeds among the bytes before an offset
FeedsBefore(bytes, offset) == Cardinality({i \in 1..offset : bytes[i] = "\n"})

\* The offset after the last line feed before an offset, 0 when there is none
LineStartBefore(bytes, offset) ==
  LET feeds == {i \in 1..offset : bytes[i] = "\n"}
  IN IF feeds = {} THEN 0 ELSE CHOOSE i \in feeds : \A j \in feeds : j <= i

\* C24: for every offset from 0 to the byte length, lineAt is 1 plus the line
\* feeds before the offset, columnAt is 1 plus the bytes between the preceding
\* line feed (or the start) and the offset, and the start of the line in the
\* table plus the column less 1 is the offset again
C24_LineAndColumn ==
  pc = "report" =>
    /\ last.op = "lineAt" =>
         last.result = 1 + FeedsBefore(sourceFile.bytes, last.arg)
    /\ last.op = "columnAt" =>
         last.result = 1 + last.arg - LineStartBefore(sourceFile.bytes, last.arg)
    /\ \A offset \in 0..count(sourceFile) :
         /\ lineAt(sourceFile, offset) \in 1..Len(findLines(sourceFile).lines.list)
         /\ findLines(sourceFile).lines.list[lineAt(sourceFile, offset)]
              + columnAt(sourceFile, offset) - 1 = offset

\* lineAt has answered for the end of a source of several lines that ends
\* with a line feed
C24_Witness ==
  /\ pc = "report"
  /\ last.op = "lineAt"
  /\ last.arg = count(sourceFile)
  /\ last.result >= 3
  /\ sourceFile.bytes[last.arg] = "\n"
  /\ sourceFile.lines.present

\* The position of the first line feed of a string, 0 when it has none
FirstFeed(str) ==
  IF \E i \in 1..Len(str) : str[i] = "\n"
    THEN CHOOSE i \in 1..Len(str) : str[i] = "\n" /\ \A j \in 1..i - 1 : str[j] # "\n"
  ELSE 0

\* The text of line n of a string, without the line feed that ends it
RECURSIVE LineText(_, _)
LineText(str, n) ==
  IF n = 1
    THEN IF FirstFeed(str) = 0 THEN str ELSE SubSeq(str, 1, FirstFeed(str) - 1)
  ELSE LineText(SubSeq(str, FirstFeed(str) + 1, Len(str)), n - 1)

\* C27: for every line number from 1 to the number of lines, getLine returns
\* the text of that line without the line feed that ends it, the last line of a
\* source that does not end with a line feed included, as for the one line of
\* var x: Num = "hi"
C27_LineText ==
  (pc = "report" /\ last.op = "getLine") => last.result = LineText(source, last.arg)

-----------------------------------------------------------------------------
(* checkInstanceMethodExists, one iteration of its loop at a time *)

\* The classes a program declares, the class it calls a method on, the method
WalkClasses == {"Foo", "Bar"}
WalkSuperclasses == {NoType, "Foo", "Bar", "List", "Qux"}
WalkTypes == {"Foo", "Bar", "List", "Qux"}
WalkMethods == {"foo", "count", "toString"}

\* The registries of programs that declare none, one or both of the classes,
\* each with or without a method foo, with any of the superclasses
WalkInfos(name) ==
  {[name |-> name, instanceMethods |-> methods, staticMethods |-> {},
    superclass |-> superclass] :
     methods \in {{}, {"foo"}}, superclass \in WalkSuperclasses}

WalkRegistries ==
  {{}} \cup {{foo} : foo \in WalkInfos("Foo")}
       \cup {{foo, bar} : foo \in WalkInfos("Foo"), bar \in WalkInfos("Bar")}

\* The locals of checkInstanceMethodExists when its loop is entered. trail is
\* not a local: it lists the names in the order visited.add was called
WalkFrame(typeName, methodName) ==
  [typeName |-> typeName, methodName |-> methodName, current |-> typeName,
   visited |-> {}, knownClass |-> FALSE, trail |-> <<>>, at |-> "loop"]

\* One iteration of the loop without the visited set
walkStep_noVisited(registry, F) ==
  IF F.current = NoType THEN [F EXCEPT !.at = "after"]
  ELSE IF RegistryHas(registry, F.current)
    THEN IF F.methodName \in RegistryGet(registry, F.current).instanceMethods
           THEN [F EXCEPT !.knownClass = TRUE, !.at = "returned"]
           ELSE [F EXCEPT !.knownClass = TRUE,
                          !.current = RegistryGet(registry, F.current).superclass]
  ELSE IF F.current \in DOMAIN CORE_INSTANCE_METHODS
    THEN IF F.methodName \in CORE_INSTANCE_METHODS[F.current]
           THEN [F EXCEPT !.knownClass = TRUE, !.at = "returned"]
           ELSE [F EXCEPT !.knownClass = TRUE,
                          !.current = IF F.current \in DOMAIN CORE_SUPERCLASS
                                        THEN CORE_SUPERCLASS[F.current] ELSE NoType]
  ELSE [F EXCEPT !.at = "after"]

\* One iteration of the loop of checkInstanceMethodExists, its test included:
\* at tells whether the loop goes on, was left, or the method returned
walkStep(registry, F) ==
  LET V == [F EXCEPT !.visited = @ \cup {F.current}, !.trail = Append(@, F.current)]
  IN IF F.current = NoType THEN [F EXCEPT !.at = "after"]
     ELSE IF F.current \in F.visited THEN [F EXCEPT !.at = "after"]
     ELSE IF RegistryHas(registry, F.current)
       THEN IF F.methodName \in RegistryGet(registry, F.current).instanceMethods
              THEN [V EXCEPT !.knownClass = TRUE, !.at = "returned"]
              ELSE [V EXCEPT !.knownClass = TRUE,
                             !.current = RegistryGet(registry, F.current).superclass]
     ELSE IF F.current \in DOMAIN CORE_INSTANCE_METHODS
       THEN IF F.methodName \in CORE_INSTANCE_METHODS[F.current]
              THEN [V EXCEPT !.knownClass = TRUE, !.at = "returned"]
              ELSE [V EXCEPT !.knownClass = TRUE,
                             !.current = IF F.current \in DOMAIN CORE_SUPERCLASS
                                           THEN CORE_SUPERCLASS[F.current] ELSE NoType]
     ELSE [V EXCEPT !.at = "after"]

\* checkInstanceMethodExists after its loop: the warning it pushes, if any
walkWarnings(F, node) ==
  IF ~F.knownClass THEN <<>>
  ELSE IF F.methodName \in CORE_INSTANCE_METHODS["Object"] THEN <<>>
  ELSE <<warn(<<F.typeName, F.methodName, "instance">>, node.name, "unknown-method")>>

\* The call the method is looked up for: receiver.methodName
WalkNode(methodName) == CallExpr(Name("x", 0), Tok(methodName, 2), NullList, Nil)

InitWalk ==
  /\ lexer = Nil
  /\ parser = Nil
  /\ pc = "walk"
  /\ source = <<>>
  /\ sourceFile = Nil
  /\ module = <<>>
  /\ parserDiagnostics = <<>>
  /\ parseOnlyResult = Nil
  /\ diagnostics = <<>>
  /\ scopes = <<ModuleScope>>
  /\ forwardReferences = <<>>
  /\ hasBareImport = FALSE
  /\ env = EmptyEnvironment
  /\ currentReturnType = NoType
  /\ currentClassName = NoType
  /\ classRegistry \in WalkRegistries
  /\ \E typeName \in WalkTypes, methodName \in WalkMethods :
       work = <<WalkFrame(typeName, methodName)>>
  /\ last = Visited("new", Nil, Nil)

\* One iteration of the while loop, or its test failing
TypeChecker_walkStep ==
  /\ pc = "walk"
  /\ work[1].at = "loop"
  /\ work' = <<walkStep(classRegistry, work[1])>>
  /\ pc' = IF work'[1].at = "returned" THEN "walked" ELSE "walk"
  /\ last' = Visited("checkInstanceMethodExists: loop", work[1].current, work[1])
  /\ UNCHANGED <<lexer, parser, source, sourceFile, module, parserDiagnostics,
                 parseOnlyResult, diagnostics, scopes, forwardReferences, hasBareImport,
                 env, currentReturnType, currentClassName, classRegistry>>

\* The statements after the loop
TypeChecker_walkEnd ==
  /\ pc = "walk"
  /\ work[1].at = "after"
  /\ diagnostics' = diagnostics \o walkWarnings(work[1], WalkNode(work[1].methodName))
  /\ pc' = "walked"
  /\ last' = Visited("checkInstanceMethodExists: end", work[1].current, work[1])
  /\ UNCHANGED <<lexer, parser, source, sourceFile, module, parserDiagnostics,
                 parseOnlyResult, scopes, forwardReferences, hasBareImport, env,
                 currentReturnType, currentClassName, classRegistry, work>>

NextWalk ==
  \/ TypeChecker_walkStep
  \/ TypeChecker_walkEnd

\* The method runs on once called: nothing else is scheduled
SpecWalk == InitWalk /\ [][NextWalk]_vars /\ WF_vars(NextWalk)

\* The acyclic chain of the classes the walk visited: the declared classes of
\* the trail, each with the class visited next as superclass and the one
\* visited last with none
VisitedChain(registry, trail) ==
  {[RegistryGet(registry, trail[i]) EXCEPT
      !.superclass = IF i < Len(trail) THEN trail[i + 1] ELSE NoType] :
     i \in {k \in 1..Len(trail) : RegistryHas(registry, trail[k])}}

\* No class names one of its superclasses, or itself, as superclass
RECURSIVE ChainEnds(_, _, _)
ChainEnds(registry, current, seen) ==
  IF current = NoType THEN TRUE
  ELSE IF current \in seen THEN FALSE
  ELSE IF RegistryHas(registry, current)
    THEN ChainEnds(registry, RegistryGet(registry, current).superclass,
                   seen \cup {current})
  ELSE TRUE

\* No name is in the trail twice
VisitedOnce(trail) ==
  \A i, j \in 1..Len(trail) : trail[i] = trail[j] => i = j

\* C25: the walk ends for every registry, those with a cycle of superclasses
\* included; every class name is visited at most once; and the walk ends with
\* the warning, or without it, as for the acyclic chain of the classes visited
C25_WalkEnds ==
  /\ <>(pc = "walked")
  /\ [](pc \in {"walk", "walked"} =>
          /\ VisitedOnce(work[1].trail)
          /\ pc = "walked" =>
               /\ ChainEnds(VisitedChain(classRegistry, work[1].trail), work[1].typeName, {})
               /\ diagnostics
                    = checkInstanceMethodExists(VisitedChain(classRegistry, work[1].trail),
                                                work[1].typeName, work[1].methodName,
                                                WalkNode(work[1].methodName))
               /\ diagnostics
                    = checkInstanceMethodExists(classRegistry, work[1].typeName,
                                                work[1].methodName,
                                                WalkNode(work[1].methodName)))

\* The walk has ended after it came back to a class it had visited: Foo is Bar
\* and Bar is Foo, neither with the method, and the warning is pushed
C25_Witness ==
  /\ pc = "walked"
  /\ work[1].trail = <<"Foo", "Bar">>
  /\ work[1].current = "Foo"
  /\ RegistryHas(classRegistry, "Bar")
  /\ RegistryGet(classRegistry, "Bar").superclass = "Foo"
  /\ Len(diagnostics) = 1

-----------------------------------------------------------------------------
(* The tokens the parser holds, against those the scanner gives *)

\* The tokens the parser has taken, then current when it is set, then the
\* lookahead queue
HeldTokens(P) ==
  P.taken \o (IF P.current # Nil THEN <<P.current>> ELSE <<>>) \o P.lookahead

\* The i-th token the scanner gives for a source: Eof again and again at the end
ScannedAt(texts, i) ==
  IF i <= Len(Scanned(texts)) THEN Scanned(texts)[i]
  ELSE Scanned(texts)[Len(Scanned(texts))]

\* C26: the tokens consumed, then current, then the lookahead queue, are a
\* prefix of the tokens of the scanner in their order: none is skipped,
\* duplicated or reordered, also after a speculation that found no dot and one
\* that started with the lookahead queue not empty
C26_NoTokenLost ==
  pc \in {"parse", "parsed"} =>
    \A i \in 1..Len(HeldTokens(parser)) : HeldTokens(parser)[i] = ScannedAt(source, i)

-----------------------------------------------------------------------------
(* Return types and block arguments *)

\*   class Baz { run() -> R { Helper.each { e } } }
ClosureInMethod(R, e) == Prelude \o ReturnIn("blockInMethod", R, e)

\* C29: the body of a block argument inside a method annotated  -> R  is not
\* checked against R: analyzing  class Baz { run() -> R { Helper.each { e } } }
\* gives no type-mismatch warning, whatever the block's expression e is.
C29_ClosureNotChecked ==
  (pc = "done" /\ last.op = "analyze") =>
    \A R \in Annotations :
      \A e \in Literals(ReturnAt("blockInMethod", R))
                 \cup NonLiterals(ReturnAt("blockInMethod", R)) :
        module = ClosureInMethod(R, e) =>
          \A i \in 1..Len(diagnostics) : diagnostics[i].code # "type-mismatch"

-----------------------------------------------------------------------------
(* Type information and lexical scope *)

\* C28: type information follows lexical scope.  When the declaration of x that
\* is in scope at a use of x has neither an annotation nor a literal initializer,
\* (the annotated x of a block that has ended, or the annotated x of the module
\* hidden by a  var x = 1 + 1  of the block the use is in), the assignment
\* x = "hello"  and the call  x.nonsense  get no warning.
C28_TypesFollowScope ==
  (pc = "done" /\ last.op = "analyze") =>
    \A c \in ScopedCases :
      module = c.module => PlacedAt(diagnostics, c.on) = <<>>

-----------------------------------------------------------------------------
(* The front end runs to its end: tokenize(source) on the characters of a  *)
(* source, and new Parser(lexer).parseModule() on the texts of a source,   *)
(* neither of them interrupted                                            *)

\* The longest source drawn from an alphabet, in characters for tokenize and in
\* texts for parseModule
MaxFront == 3

\* The sources that stop inside a construct: what is left of a source when it is
\* cut after any of its texts
Prefixes(texts) == {SubSeq(texts, 1, n) : n \in 0..Len(texts)}

\* var x = [1, 2]
\* var y = {1: 2, 1: 2}
\* {
\*   f(1, 2)
\* }
\* "hi %(1)"
\* a.bar.baz
OpenConstructs ==
  <<"var", "x", "=", "[", "1", ",", "2", "]", "\n",
    "var", "y", "=", "{", "1", ":", "2", ",", "1", ":", "2", "}", "\n",
    "{", "\n", "f", "(", "1", ",", "2", ")", "\n", "}", "\n",
    "\"hi %(", "1", ")\"", "\n",
    "a", ".", "bar", ".", "baz">>

FrontEndTexts ==
  UNION {{ts, <<"(">> \o ts, <<"if", "(">> \o ts} :
           ts \in UNION {TextsOf(n) : n \in 0..MaxFront}}
    \cup Prefixes(ClassOnLines) \cup Prefixes(OpenConstructs)

FrontEndCharacters ==
  SourcesOf(MaxFront) \cup NumberSources(MaxFront)
    \cup {str \in LexerSamples : Len(str) <= 2 * MaxFront}

InitFrontEnd ==
  /\ lexer = Nil
  /\ parser = Nil
  /\ \/ pc = "lexer" /\ source \in FrontEndCharacters
     \/ pc = "new" /\ source \in FrontEndTexts
  /\ module = <<>>
  /\ parserDiagnostics = <<>>
  /\ parseOnlyResult = Nil
  /\ diagnostics = <<>>
  /\ scopes = <<ModuleScope>>
  /\ forwardReferences = <<>>
  /\ hasBareImport = FALSE
  /\ env = EmptyEnvironment
  /\ currentReturnType = NoType
  /\ currentClassName = NoType
  /\ classRegistry = {}
  /\ work = <<>>
  /\ sourceFile = Nil
  /\ last = Visited("new", Nil, Nil)

NextFrontEnd ==
  \/ Lexer_new
  \/ Lexer_readToken
  \/ Parser_new
  \/ Parser_parseModule

\* The loop of tokenize goes on until it has read Eof.  parseModule is one call
SpecFrontEnd ==
  InitFrontEnd /\ [][NextFrontEnd]_vars /\ WF_vars(Lexer_new \/ Lexer_readToken)

\* The call of readToken that led to the state consumed a byte or returned Eof,
\* and returned Eof when it was made at the end of the source
ReadAdvances ==
  last.op = "Lexer.readToken" =>
    LET token == lexer.returned[Len(lexer.returned)]
    IN /\ lexer.current > last.pre.current \/ token.type = "eof"
       /\ last.pre.current >= count(lexer.source) => token.type = "eof"

\* After the first Eof every further call returns Eof, and reads nothing
EofStays ==
  pc = "scanned" =>
    /\ lexer.current >= count(lexer.source)
    /\ Lexer_read(lexer).token.type = "eof"
    /\ Lexer_read(lexer).L = lexer

\* parseModule returns a Module for every parser the constructor leaves
ParseModuleReturns == pc = "parse" => parseModule(parser).node.kind = "Module"

\* When parseModule has returned, the last token it has consumed is Eof, and it
\* has consumed at least one token for every statement its loop has added
ModuleLoopAdvances ==
  pc = "parsed" =>
    /\ parser.taken # <<>>
    /\ parser.taken[Len(parser.taken)].type = "eof"
    /\ Len(module) <= Len(parser.taken)

\* C30: the front end terminates.  tokenize reaches its Eof for every source;
\* every readToken call consumes at least one byte or returns Eof, and Eof is
\* returned again on every call after the source is exhausted; parseModule
\* returns for every source, with failed expectations and with constructs left
\* open at the end of the source, having consumed the tokens up to Eof and at
\* least one token for every turn of its loop.
C30_FrontEndTerminates ==
  /\ (pc = "lexer") ~> (pc = "scanned")
  /\ [](ReadAdvances /\ EofStays /\ ParseModuleReturns /\ ModuleLoopAdvances)

\* C30 happens: parseModule has returned for  if (a  where the source ends inside
\* the condition, with errors reported
C30_Witness ==
  /\ pc = "parsed"
  /\ source = <<"if", "(", "a">>
  /\ parserDiagnostics # <<>>
  /\ Len(parser.taken) >= 3

====
